---- MODULE Spec2Model ----
(***************************************************************************)
(* Model of the client-side orchestration core of the quote extraction     *)
(* frontend: the mock-fallback request orchestrator (api/client.js,        *)
(* api/mockData.js), the upload status poller (pages/UploadPage.jsx,       *)
(* components/UploadForm.jsx), the quote curation page (QuotesPage.jsx)    *)
(* and the export page (ExportPage.jsx, ExportForm.jsx, ExportResult.jsx). *)
(*                                                                         *)
(* The runtime is a single-threaded event loop.  One action of the model   *)
(* is one task of the loop together with the microtasks it triggers: a     *)
(* user event, a timer firing, or the settling of a fetch.  A promise that *)
(* is already resolved (the mock branch of tryWithMock) is continued in    *)
(* the same task, so its continuation belongs to the same action.          *)
(***************************************************************************)
EXTENDS Integers, Sequences, FiniteSets, TLC

\* ---------------------------------------------------------------- bounds
MaxPolls == 2        \* status queries issued by one polling session
MaxScriptPolls == 4  \* the same, while the service follows Script
MaxSessions == 2     \* runs of the polling effect in one behaviour
MaxQueryLen == 3     \* characters typed into the tag query
MaxQuotes == 3       \* quotes in a list handed to the tag filter
MaxQuoteCalls == 4   \* client calls made by QuotesPage in one behaviour
MaxTitleLen == 2     \* characters typed into the title or the author field
MaxExportCalls == 2  \* submits, refreshes and downloads in one behaviour

\* ------------------------------------------------------- program constants
POLL_INTERVAL_MS == 1500
Undefined == -1      \* error.status of an error that carries no status

MOCK_ASSET_ID == "mock_asset_1"
MOCK_TRANSCRIPT_ID == "mock_transcript_1"

\* ---------------------------------------------------------- input domains
LiveAssetIds == {"a1", "a2"}
PollStatuses == {"pending", "processing", "completed", "failed", "canceled"}
Payloads == {"none", "detail", "message"}   \* which field the error body carries

VARIABLES
  mockMode,    \* mockData.js: let mockMode
  inflight,    \* orchestrated calls whose live request is outstanding
  mounted,     \* UploadPage is mounted
  assetId,     \* UploadPage state
  statusInfo,  \* UploadPage state
  polling,     \* UploadPage state
  error,       \* UploadPage state
  sessions,    \* runs of the polling effect, in the order they were started
  busy,        \* UploadForm state
  last,        \* observation of past steps (not program state), see Event
  quotesPage,  \* QuotesPage state, with the memoized filteredQuotes
  exportPage,  \* ExportPage state
  exportForm,  \* ExportForm state
  exportResult,\* ExportResult state
  server,      \* the quotes the service holds, by id
  transcriptPage, \* TranscriptPage state, with that of its TranscriptEditor
  mockData,    \* mockData.js: what MOCK_TRANSCRIPT, MOCK_QUOTES and MOCK_EXPORT hold
  wire         \* observation: what the last step of a page sent, received or wrote

\* the state of the pages other than UploadPage
pages == <<quotesPage, exportPage, exportForm, exportResult, server, transcriptPage, mockData,
           wire>>

vars == <<mockMode, inflight, mounted, assetId, statusInfo, polling, error, sessions, busy, last,
          quotesPage, exportPage, exportForm, exportResult, server, transcriptPage,
          mockData, wire>>

\* ------------------------------------------------------------------ values
NoErr == [status |-> -2, payload |-> "none", message |-> ""]
NoVal == [status |-> "null", transcript_id |-> "null", asset_id |-> "null"]

\* handleResponse: the error of a non-ok response
HttpError(st, pl) ==
  [status |-> st, payload |-> pl,
   message |-> CASE st = 0 -> "HTTP 0"
                 [] st = 404 -> "HTTP 404"
                 [] st = 400 -> "HTTP 400"
                 [] OTHER -> "HTTP 500"]

\* fetch rejects (no response at all): an error without status and payload
NetworkError == [status |-> Undefined, payload |-> "none", message |-> "Failed to fetch"]

LiveErrors ==
  {NetworkError} \cup {HttpError(st, "none") : st \in {0, 404}}
                 \cup {HttpError(st, pl) : st \in {400, 500}, pl \in Payloads}

\* the failures drawn for the live request of each endpoint
ErrorsOf(ep) ==
  CASE ep = "uploadAsset" -> {NetworkError, HttpError(400, "detail")}
    [] ep = "getUploadStatus" ->
         {HttpError(404, "none"), HttpError(500, "none"), HttpError(500, "message")}
    [] OTHER -> LiveErrors

\* client functions called without a continuation that touches the page
ClientEndpoints == {"healthCheck", "getServiceStatus", "listAssets"}

\* ---------------------------------------------------------------- mock data
getMockUploadResponse ==
  [status |-> "completed", transcript_id |-> "null", asset_id |-> MOCK_ASSET_ID]

getMockUploadStatus ==
  [status |-> "completed", transcript_id |-> MOCK_TRANSCRIPT_ID, asset_id |-> MOCK_ASSET_ID]

HealthMock == [status |-> "healthy", transcript_id |-> "null", asset_id |-> "null"]

\* the fallback argument each client function hands to tryWithMock
MockData(ep) ==
  CASE ep = "healthCheck" -> HealthMock
    [] ep = "getServiceStatus" -> HealthMock
    [] ep = "listAssets" -> [getMockUploadResponse EXCEPT !.status = "null"]
    [] ep = "uploadAsset" -> getMockUploadResponse
    [] OTHER -> getMockUploadStatus

\* what the live service can answer on success
LiveValues(ep, asset) ==
  CASE ep \in {"healthCheck", "getServiceStatus"} ->
         {[status |-> "ok", transcript_id |-> "null", asset_id |-> "null"]}
    [] ep = "listAssets" ->
         {[status |-> "null", transcript_id |-> "null", asset_id |-> a] : a \in LiveAssetIds}
    [] ep = "uploadAsset" ->
         {[status |-> "pending", transcript_id |-> "null", asset_id |-> a] : a \in LiveAssetIds}
    [] OTHER ->
         {[status |-> s, transcript_id |-> IF s = "completed" THEN "t1" ELSE "null",
           asset_id |-> asset] : s \in PollStatuses}

\* ------------------------------------------------------------ orchestrator
isMockMode == mockMode

\* variant: 404 is taken for an ordinary error of the service
IsConnectivityError_No404(e) == e.status = 0 \/ e.status = Undefined

\* variant: every 5xx is taken for an absent service as well
IsConnectivityError_5xx(e) ==
  e.status = 0 \/ e.status = Undefined \/ e.status = 404 \/ e.status >= 500

IsConnectivityError(e) == e.status = 0 \/ e.status = Undefined \/ e.status = 404

\* variant: the flag is not consulted before the live call
TryWithMockStart_NoFlagCheck(ep, s, ord, at) ==
  [ep |-> ep, sess |-> s, ord |-> ord, at |-> at, live |-> TRUE,
   st |-> "inflight", ret |-> "none", val |-> NoVal,
   err |-> NoErr, thrown |-> NoErr]

\* tryWithMock up to its first suspension: the call it leaves behind
TryWithMockStart(ep, s, ord, at) ==
  IF isMockMode
    THEN [ep |-> ep, sess |-> s, ord |-> ord, at |-> at, live |-> FALSE,
          st |-> "returned", ret |-> "fallback", val |-> MockData(ep),
          err |-> NoErr, thrown |-> NoErr]
    ELSE [ep |-> ep, sess |-> s, ord |-> ord, at |-> at, live |-> TRUE,
          st |-> "inflight", ret |-> "none", val |-> NoVal,
          err |-> NoErr, thrown |-> NoErr]

\* variant: a live success switches mock mode off again
FlagAfterSuccess_Reset(flag) == FALSE

\* the flag after the live call of tryWithMock resolved
FlagAfterSuccess(flag) == flag

\* the flag after the catch branch of tryWithMock took the fallback
enableMockMode == TRUE

\* tryWithMock after the live call resolved with value v
TryWithMockResolve(c, v) == [c EXCEPT !.st = "returned", !.ret = "live", !.val = v]

\* variant: every error of the live call is thrown on to the caller
TryWithMockReject_Rethrow(c, e) == [c EXCEPT !.st = "thrown", !.err = e, !.thrown = e]

\* tryWithMock after the live call rejected with error e
TryWithMockReject(c, e) ==
  IF IsConnectivityError(e)
    THEN [c EXCEPT !.st = "returned", !.ret = "fallback", !.val = MockData(c.ep), !.err = e]
    ELSE [c EXCEPT !.st = "thrown", !.err = e, !.thrown = e]

\* ------------------------------------------------------------- UploadPage
\* variant: canceled is not taken for a terminal status
IsTerminal_NoCanceled(res) ==
  res.status = "completed" \/ res.status = "failed"

IsTerminal(res) ==
  res.status = "completed" \/ res.status = "failed" \/ res.status = "canceled"

\* e?.payload?.message || e?.message || "Failed to check status."
PollErrorMessage(e) ==
  IF e.payload = "message" THEN "server message"
  ELSE IF e.message # "" THEN e.message ELSE "Failed to check status."

\* e?.payload?.detail || e?.message || "Upload failed."
UploadErrorMessage(e) ==
  IF e.payload = "detail" THEN "server detail"
  ELSE IF e.message # "" THEN e.message ELSE "Upload failed."

\* a run of the polling effect: active and interval are the effect's locals;
\* the other fields observe the run: queries issued, intervals elapsed, a
\* terminal status applied, errors that reached the callback and the last of
\* them, a result discarded after the cleanup
NewSession(a) ==
  [asset |-> a, active |-> TRUE, timer |-> "set", issued |-> 0, elapsedMs |-> 0,
   terminal |-> FALSE, errors |-> 0, thrown |-> NoErr]

\* the cleanup returned by the polling effect, run for every live session:
\* active = false and clearInterval(interval).  The observation of a run ends
\* with the run.
Cleanup(ss) ==
  [s \in DOMAIN ss |->
     [ss[s] EXCEPT !.active = FALSE, !.timer = "cleared", !.issued = 0, !.elapsedMs = 0,
                   !.terminal = FALSE, !.errors = 0, !.thrown = NoErr]]

\* variant: the effect also runs the callback once right away
StartPolling_Immediate(a, ss, fl) ==
  /\ polling' = TRUE
  /\ sessions' = Append(ss, [NewSession(a) EXCEPT !.issued = 1])
  /\ inflight' = fl \cup {[ep |-> "getUploadStatus", sess |-> Len(ss) + 1, ord |-> 1,
                           at |-> 0, live |-> TRUE, st |-> "inflight", ret |-> "none",
                           val |-> NoVal, err |-> NoErr, thrown |-> NoErr]}

\* the body of the polling effect for a non-empty asset id: setPolling(true)
\* and setInterval; no query is issued here
StartPolling(a, ss, fl) ==
  /\ polling' = TRUE
  /\ sessions' = Append(ss, NewSession(a))
  /\ inflight' = fl

\* variant: the result is applied without looking at active
PollThen_NoActiveCheck(s, res, ss) ==
  /\ statusInfo' = res
  /\ UNCHANGED error
  /\ IF IsTerminal(res)
       THEN /\ sessions' = [ss EXCEPT ![s].timer = "cleared"]
            /\ polling' = FALSE
       ELSE /\ sessions' = ss
            /\ UNCHANGED polling

\* the interval callback after await getUploadStatus returned res
PollThen(s, res, ss) ==
  IF ~ss[s].active
    THEN /\ sessions' = ss
         /\ UNCHANGED <<statusInfo, polling, error>>
    ELSE /\ statusInfo' = res
         /\ UNCHANGED error
         /\ IF IsTerminal(res)
              THEN /\ sessions' = [ss EXCEPT ![s].timer = "cleared"]
                   /\ polling' = FALSE
              ELSE /\ sessions' = ss
                   /\ UNCHANGED polling

\* variant: the error is shown but the interval keeps running
PollCatch_NoClear(s, e, ss) ==
  IF ~ss[s].active
    THEN /\ sessions' = ss
         /\ UNCHANGED <<statusInfo, polling, error>>
    ELSE /\ error' = PollErrorMessage(e)
         /\ sessions' = ss
         /\ polling' = FALSE
         /\ UNCHANGED statusInfo

\* the interval callback after await getUploadStatus threw e
PollCatch(s, e, ss) ==
  IF ~ss[s].active
    THEN /\ sessions' = ss
         /\ UNCHANGED <<statusInfo, polling, error>>
    ELSE /\ error' = PollErrorMessage(e)
         /\ sessions' = [ss EXCEPT ![s].timer = "cleared"]
         /\ polling' = FALSE
         /\ UNCHANGED statusInfo

\* UploadPage onUploaded, followed by the re-run of the polling effect when
\* the asset id changed (cleanup of the previous run, then the new run)
OnUploaded(r, fl) ==
  /\ error' = ""
  /\ statusInfo' = NoVal
  /\ assetId' = r.asset_id
  /\ IF r.asset_id # assetId
       THEN StartPolling(r.asset_id, Cleanup(sessions), fl)
       ELSE /\ inflight' = fl
            /\ UNCHANGED <<polling, sessions>>

\* UploadPage onError
OnError(msg, fl) ==
  /\ error' = msg
  /\ inflight' = fl
  /\ UNCHANGED <<statusInfo, assetId, polling, sessions>>

\* ----------------------------------------------------------------- strings
\* a string the code takes apart is a sequence of one-character strings
Chars == {"a", "b", "B", ",", " "}

\* String.prototype.toLowerCase
LowerChar(ch) == CASE ch = "A" -> "a" [] ch = "B" -> "b" [] OTHER -> ch
toLowerCase(s) == [i \in DOMAIN s |-> LowerChar(s[i])]

\* String.prototype.trim
RECURSIVE trimStart(_)
trimStart(s) == IF s # <<>> /\ Head(s) = " " THEN trimStart(Tail(s)) ELSE s

RECURSIVE trimEnd(_)
trimEnd(s) ==
  IF s # <<>> /\ s[Len(s)] = " " THEN trimEnd(SubSeq(s, 1, Len(s) - 1)) ELSE s

trim(s) == trimEnd(trimStart(s))

\* s.split(","), piece being the piece read so far
RECURSIVE split(_, _)
split(s, piece) ==
  IF s = <<>> THEN <<piece>>
  ELSE IF Head(s) = "," THEN <<piece>> \o split(Tail(s), <<>>)
  ELSE split(Tail(s), Append(piece, Head(s)))

\* String.prototype.includes
includes(s, sub) ==
  \E i \in 1..(Len(s) - Len(sub) + 1) : SubSeq(s, i, i + Len(sub) - 1) = sub

\* ------------------------------------------------------------------ quotes
\* a quote: confidence in hundredths, tags a list of strings
Quote(id, text, conf, appr, tags) ==
  [id |-> id, text |-> text, confidence |-> conf, approved |-> appr, tags |-> tags]

\* mockData.js MOCK_QUOTES, cut to its first three entries and each tag to
\* its first letter
MOCK_QUOTES ==
  << Quote("mock_quote_1", "text of mock_quote_1", 94, TRUE, << <<"p">>, <<"a">> >>),
     Quote("mock_quote_2", "text of mock_quote_2", 91, TRUE, << <<"v">>, <<"s">> >>),
     Quote("mock_quote_3", "text of mock_quote_3", 88, FALSE, << <<"t">>, <<"e">> >>) >>

\* getMockQuoteList returns the array itself
getMockQuoteList == mockData.quotes

\* MOCK_QUOTES.find((q) => q.id === id) || MOCK_QUOTES[0]
getMockQuote(id) ==
  LET quotes == mockData.quotes
  IN IF \E i \in DOMAIN quotes : quotes[i].id = id
       THEN quotes[CHOOSE i \in DOMAIN quotes :
                     /\ quotes[i].id = id
                     /\ \A j \in DOMAIN quotes : quotes[j].id = id => i <= j]
       ELSE quotes[1]

\* ------------------------------------------------------------- QuotesPage
\* tagQuery.split(",").map((t) => t.trim().toLowerCase()).filter(Boolean)
Tokens(tagQuery) ==
  LET pieces == split(tagQuery, <<>>)
      NonEmpty(t) == t # <<>>
  IN SelectSeq([i \in DOMAIN pieces |-> toLowerCase(trim(pieces[i]))], NonEmpty)

\* variant: a quote is kept when any one token matches
filteredQuotes_AnyToken(quotes, tagQuery) ==
  IF trim(tagQuery) = <<>> THEN quotes
  ELSE LET tokens == Tokens(tagQuery)
           Keep(q) ==
             LET qtags == [i \in DOMAIN q.tags |-> toLowerCase(q.tags[i])]
             IN \E k \in DOMAIN tokens : \E j \in DOMAIN qtags : includes(qtags[j], tokens[k])
       IN IF Len(tokens) = 0 THEN quotes ELSE SelectSeq(quotes, Keep)

\* the memo filteredQuotes of QuotesPage
filteredQuotes(quotes, tagQuery) ==
  IF trim(tagQuery) = <<>> THEN quotes
  ELSE LET tokens == Tokens(tagQuery)
           Keep(q) ==
             LET qtags == [i \in DOMAIN q.tags |-> toLowerCase(q.tags[i])]
             IN \A k \in DOMAIN tokens : \E j \in DOMAIN qtags : includes(qtags[j], tokens[k])
       IN IF Len(tokens) = 0 THEN quotes ELSE SelectSeq(quotes, Keep)

\* QuotesPage as rendered: the memo follows quotes and tagQuery
RenderQuotes(qp) == [qp EXCEPT !.filteredQuotes = filteredQuotes(qp.quotes, qp.tagQuery)]

\* observation of an approve and a following reject applied to one entry:
\* the entry's position, the entry before the approve, and how far it got
NoTrip == [pos |-> 0, before |-> MOCK_QUOTES[1], stage |-> 0]

\* QuotesPage before it is mounted, with the initial values of its state;
\* calls counts the client calls the page has made
InitQuotesPage ==
  [mounted |-> FALSE, status |-> "all", minConf |-> 0, tagQuery |-> <<>>,
   loading |-> TRUE, error |-> "", quotes |-> <<>>, filteredQuotes |-> <<>>,
   calls |-> 0, trip |-> NoTrip]

\* the quotes the service holds when the session starts
InitServer ==
  [id \in {"q1", "q2"} |->
     IF id = "q1" THEN Quote("q1", "text of q1", 80, FALSE, << <<"a">>, <<"b">> >>)
                  ELSE Quote("q2", "text of q2", 40, TRUE, << <<"a">>, <<"c">> >>)]

\* ------------------------------------------------------------- ExportPage
\* an export job resource
Job(id, format, status) == [id |-> id, format |-> format, status |-> status]

\* job state null
NoJob == Job("null", "null", "null")

\* mockData.js MOCK_EXPORT, and getMockExportJob, a copy of what it holds
MOCK_EXPORT == Job("mock_export_1", "plain_text", "completed")
getMockExportJob == mockData.export

\* a downloaded payload, by the type JavaScript sees; getMockExportResult
\* joins quote texts into a string
Payload(type) == [type |-> type]
getMockExportResult == Payload("string")

\* calls counts the submits, refreshes and downloads made
InitExportPage ==
  [mounted |-> FALSE, quotes |-> <<>>, loadingQuotes |-> TRUE, quotesError |-> "",
   submitting |-> FALSE, job |-> NoJob, jobError |-> "", calls |-> 0]

\* selected lists the ids of the Set in insertion order
InitExportForm ==
  [format |-> "plain_text", title |-> <<>>, author |-> <<>>, selected |-> <<>>]

\* run counts the runs of the preview effect, the last one being the active
\* one; deps is the job that run saw and fetched whether it asked for the
\* job's output
InitExportResult ==
  [preview |-> "", previewType |-> "text", loadingPreview |-> FALSE, previewError |-> "",
   run |-> 0, deps |-> NoJob, fetched |-> FALSE]

NoWire == [kind |-> "none"]

\* --------------------------------------------------------- TranscriptPage
\* a transcript as a page holds it: shared tells that the object held is
\* MOCK_TRANSCRIPT itself; language and status are passed through unchanged
\* and left out
Transcript(shared, id, text) == [shared |-> shared, id |-> id, text |-> text]

\* transcript state null
NoTranscript == Transcript(FALSE, "null", <<>>)

\* mockData.js MOCK_TRANSCRIPT, its text cut to one letter
MOCK_TRANSCRIPT == [id |-> MOCK_TRANSCRIPT_ID, text |-> <<"m">>]

\* the objects of mockData.js as the module is loaded
InitMockData ==
  [asset |-> MOCK_ASSET_ID, transcript |-> MOCK_TRANSCRIPT, quotes |-> MOCK_QUOTES,
   export |-> MOCK_EXPORT]

\* getMockTranscript returns MOCK_TRANSCRIPT itself
getMockTranscript == Transcript(TRUE, mockData.transcript.id, mockData.transcript.text)

\* TranscriptPage before it is mounted, with the state of TranscriptEditor
\* (localText, dirty, note); timers counts the timers set to clear the flash
\* message, calls the client calls made
InitTranscriptPage ==
  [mounted |-> FALSE, transcripts |-> <<>>, selectedId |-> "", transcript |-> NoTranscript,
   loadingList |-> TRUE, loadingTranscript |-> FALSE, saving |-> FALSE, error |-> "",
   flash |-> "", timers |-> 0, localText |-> <<>>, dirty |-> FALSE, note |-> "",
   calls |-> 0]

\* the initial state of what every page shares
InitShared ==
  /\ mockData = InitMockData
  /\ transcriptPage = InitTranscriptPage

\* ------------------------------------------------------------ observation
TerminalStatuses == {"completed", "failed", "canceled"}
Script == <<"pending", "processing", "completed">>

\* what the poller did with a settled status call of a session
Disposition(c, ss) ==
  IF c.ep # "getUploadStatus" THEN "none"
  ELSE IF ~ss[c.sess].active THEN "discarded"
  ELSE IF c.st = "thrown" THEN "error" ELSE "applied"

\* the session records with the settled status call c noted
Observe(c, ss) ==
  [ss EXCEPT ![c.sess] =
     [@ EXCEPT
        !.terminal = @ \/ (Disposition(c, ss) = "applied" /\ c.val.status \in TerminalStatuses),
        !.errors = IF Disposition(c, ss) = "error" THEN @ + 1 ELSE @,
        !.thrown = IF Disposition(c, ss) = "error" THEN c.thrown ELSE @]]

NoCall == TryWithMockResolve(
            [ep |-> "none", sess |-> 0, ord |-> 0, at |-> 0, live |-> FALSE,
             st |-> "none", ret |-> "none", val |-> NoVal, err |-> NoErr, thrown |-> NoErr],
            NoVal)

\* the step of call c as observed, flag being the mock flag before the step:
\* in full for a call in ClientEndpoints, as a mark once a status result has
\* reached a cancelled polling session, and not at all otherwise
Event(kind, c, flag) ==
  IF c.ep \in ClientEndpoints \/ kind = "init"
    THEN [kind |-> kind, call |-> c, flagBefore |-> flag]
    ELSE IF kind = "settle" /\ Disposition(c, sessions) = "discarded"
      THEN [kind |-> "stale", call |-> NoCall, flagBefore |-> FALSE]
      ELSE last

\* ------------------------------------------------------------------- Init
InitUpload ==
  /\ mockMode = FALSE
  /\ inflight = {}
  /\ mounted = TRUE
  /\ assetId = "null"
  /\ statusInfo = NoVal
  /\ polling = FALSE
  /\ error = ""
  /\ sessions = <<>>
  /\ busy = FALSE
  /\ last = Event("init", NoCall, FALSE)

Init ==
  /\ InitUpload
  /\ InitShared
  /\ quotesPage = InitQuotesPage
  /\ exportPage = InitExportPage
  /\ exportForm = InitExportForm
  /\ exportResult = InitExportResult
  /\ server = InitServer
  /\ wire = NoWire

\* ---------------------------------------------------------------- actions
\* a client function without page continuation is called, e.g. PageWrapper's
\* healthCheck().catch(console.warn) on mount
ApiCall(ep) ==
  /\ \A c \in inflight : c.ep # ep
  /\ LET c == TryWithMockStart(ep, 0, 0, 0)
     IN /\ inflight' = IF c.st = "inflight" THEN inflight \cup {c} ELSE inflight
        /\ last' = Event("start", c, mockMode)
  /\ UNCHANGED <<mockMode, mounted, assetId, statusInfo, polling, error, sessions, busy>>
  /\ UNCHANGED pages

\* UploadForm doUpload with a file chosen
DoUpload ==
  /\ mounted
  /\ ~busy
  /\ Len(sessions) < MaxSessions
  /\ busy' = TRUE
  /\ LET c == TryWithMockStart("uploadAsset", 0, 0, 0)
     IN /\ last' = Event("start", c, mockMode)
        /\ IF c.st = "returned"
             THEN OnUploaded(c.val, inflight)
             ELSE /\ inflight' = inflight \cup {c}
                  /\ UNCHANGED <<assetId, statusInfo, polling, error, sessions>>
  /\ UNCHANGED <<mockMode, mounted>>
  /\ UNCHANGED pages

\* UploadForm: setTimeout(() => setBusy(false), 250) after a successful upload
ClearBusy ==
  /\ busy
  /\ \A c \in inflight : c.ep # "uploadAsset"
  /\ busy' = FALSE
  /\ UNCHANGED <<mockMode, inflight, mounted, assetId, statusInfo, polling, error, sessions, last>>
  /\ UNCHANGED pages

\* the interval of session s fires: the callback calls getUploadStatus(assetId)
TickUpTo(s, n) ==
  /\ sessions[s].timer = "set"
  /\ sessions[s].issued < n
  /\ LET ss == [sessions EXCEPT ![s].issued = @ + 1,
                                ![s].elapsedMs = @ + POLL_INTERVAL_MS]
         c == TryWithMockStart("getUploadStatus", s, ss[s].issued, ss[s].elapsedMs)
     IN IF c.st = "returned"
          THEN /\ last' = Event("start", c, mockMode)
               /\ PollThen(s, c.val, Observe(c, ss))
               /\ UNCHANGED inflight
          ELSE /\ last' = Event("start", c, mockMode)
               /\ inflight' = inflight \cup {c}
               /\ sessions' = ss
               /\ UNCHANGED <<statusInfo, polling, error>>
  /\ UNCHANGED <<mockMode, mounted, assetId, busy>>
  /\ UNCHANGED pages

\* what the caller of tryWithMock does once the call settled as c; fl are the
\* calls still outstanding
Continue(c, fl) ==
  CASE c.ep \in ClientEndpoints ->
         /\ inflight' = fl
         /\ UNCHANGED <<mounted, assetId, statusInfo, polling, error, sessions, busy>>
    [] c.ep = "uploadAsset" ->
         /\ busy' = (c.st = "returned")
         /\ UNCHANGED mounted
         /\ IF ~mounted
              THEN /\ inflight' = fl
                   /\ UNCHANGED <<assetId, statusInfo, polling, error, sessions>>
              ELSE IF c.st = "returned"
                     THEN OnUploaded(c.val, fl)
                     ELSE OnError(UploadErrorMessage(c.thrown), fl)
    [] OTHER ->
         /\ inflight' = fl
         /\ IF c.st = "returned"
              THEN PollThen(c.sess, c.val, Observe(c, sessions))
              ELSE PollCatch(c.sess, c.thrown, Observe(c, sessions))
         /\ UNCHANGED <<mounted, assetId, busy>>

\* the fetch of the outstanding call c resolves with an ok response of body v
Resolve(c, v) ==
  LET d == TryWithMockResolve(c, v)
  IN /\ mockMode' = FlagAfterSuccess(mockMode)
     /\ last' = Event("settle", d, mockMode)
     /\ Continue(d, inflight \ {c})
     /\ UNCHANGED pages

AssetOf(c) == IF c.sess = 0 THEN "null" ELSE sessions[c.sess].asset

SettleOk ==
  \E c \in inflight : \E v \in LiveValues(c.ep, AssetOf(c)) : Resolve(c, v)

\* the fetch of an outstanding call rejects, or resolves with a non-ok response
SettleErr ==
  \E c \in inflight :
    \E e \in ErrorsOf(c.ep) :
      LET d == TryWithMockReject(c, e)
      IN /\ mockMode' = IF IsConnectivityError(e) THEN enableMockMode ELSE mockMode
         /\ last' = Event("settle", d, mockMode)
         /\ Continue(d, inflight \ {c})
         /\ UNCHANGED pages

\* UploadPage is torn down: the effect cleanup runs
Unmount ==
  /\ mounted
  /\ mounted' = FALSE
  /\ sessions' = Cleanup(sessions)
  /\ UNCHANGED <<mockMode, inflight, assetId, statusInfo, polling, error, busy, last>>
  /\ UNCHANGED pages

Tick(s) == TickUpTo(s, MaxPolls)

\* ---------------------------------------------------------- specifications
\* the API client on its own
NextClient ==
  \/ \E ep \in ClientEndpoints : ApiCall(ep)
  \/ SettleOk
  \/ SettleErr

SpecClient == Init /\ [][NextClient]_vars

\* the upload page: UploadForm, UploadPage and the client under them
NextUpload ==
  \/ DoUpload
  \/ ClearBusy
  \/ \E s \in DOMAIN sessions : Tick(s)
  \/ SettleOk
  \/ SettleErr
  \/ Unmount

SpecUpload == Init /\ [][NextUpload]_vars

\* the upload page with every armed interval firing and every outstanding
\* request settling in the end
SettleOf(ep) ==
  /\ SettleOk \/ SettleErr
  /\ \E c \in inflight : c.ep = ep /\ c \notin inflight'

SpecUploadFair ==
  /\ SpecUpload
  /\ WF_vars(\E s \in DOMAIN sessions : Tick(s))
  /\ WF_vars(SettleOf("uploadAsset"))
  /\ WF_vars(SettleOf("getUploadStatus"))

\* the upload page against a service that accepts every upload and answers
\* the k-th status query of a session with Script[k], and completed after that
ScriptAnswer(k) == IF k \in DOMAIN Script THEN Script[k] ELSE "completed"

ScriptValues(c) ==
  {v \in LiveValues(c.ep, AssetOf(c)) :
     c.ep = "getUploadStatus" => v.status = ScriptAnswer(c.ord)}

SettleScript ==
  \E c \in inflight : \E v \in ScriptValues(c) : Resolve(c, v)

ScriptTick(s) == TickUpTo(s, MaxScriptPolls)

NextScript ==
  \/ DoUpload
  \/ ClearBusy
  \/ \E s \in DOMAIN sessions : ScriptTick(s)
  \/ SettleScript
  \/ Unmount

SpecScript == Init /\ [][NextScript]_vars

TypeOK ==
  /\ mockMode \in BOOLEAN
  /\ mounted \in BOOLEAN
  /\ polling \in BOOLEAN
  /\ busy \in BOOLEAN
  /\ Len(sessions) <= MaxSessions
  /\ \A s \in DOMAIN sessions : sessions[s].issued <= MaxScriptPolls

\* ------------------------------------------------------ the tag filter alone
TagChoices ==
  { << <<"a">>, <<"b">> >>, << <<"a">>, <<"c">> >>, << <<"b">>, <<"c">> >>, << <<"A", "b">> >> }

QuoteIds == <<"q1", "q2", "q3", "q4">>

\* the quote lists handed to the filter: up to MaxQuotes quotes
QuoteLists ==
  UNION {[1..n -> TagChoices] : n \in 0..MaxQuotes}

QuotesOf(tl) == [i \in DOMAIN tl |-> Quote(QuoteIds[i], "text", 50, FALSE, tl[i])]

\* QuotesPage showing a loaded list, the tag query still empty
InitTagFilter ==
  /\ InitUpload
  /\ InitShared
  /\ \E tl \in QuoteLists :
       quotesPage = RenderQuotes([InitQuotesPage EXCEPT !.mounted = TRUE, !.loading = FALSE,
                                                        !.quotes = QuotesOf(tl)])
  /\ exportPage = InitExportPage
  /\ exportForm = InitExportForm
  /\ exportResult = InitExportResult
  /\ server = InitServer
  /\ wire = NoWire

\* QuoteFilters: a character is typed into the tag field (onTagQueryChange)
TypeTag(ch) ==
  /\ quotesPage.mounted
  /\ Len(quotesPage.tagQuery) < MaxQueryLen
  /\ quotesPage' = RenderQuotes([quotesPage EXCEPT !.tagQuery = Append(@, ch)])
  /\ UNCHANGED <<mockMode, inflight, mounted, assetId, statusInfo, polling, error, sessions,
                 busy, last, exportPage, exportForm, exportResult, server, transcriptPage,
                 mockData, wire>>

NextTagFilter == \E ch \in Chars : TypeTag(ch)

SpecTagFilter == InitTagFilter /\ [][NextTagFilter]_vars

\* ------------------------------------------------------- QuotesPage at work
\* JavaScript values that end up in a query string
Undef == [t |-> "undefined", v |-> ""]
Null == [t |-> "null", v |-> ""]
Str(s) == [t |-> "string", v |-> s]

\* String(n) of a confidence, n in hundredths
NumString(n) ==
  CASE n = 0 -> "0" [] n = 50 -> "0.5" [] n = 100 -> "1" [] OTHER -> "NaN"

Num(n) == [t |-> "number", v |-> NumString(n)]

FilterStatuses == {"all", "approved", "pending"}
MinConfs == {0, 50}

\* variant: only undefined parameters are left out
buildUrl_KeepNull(path, query) ==
  [path |-> path,
   searchParams |-> {<<k, IF query[k].t = "null" THEN "null" ELSE query[k].v>> :
                       k \in {k \in DOMAIN query : query[k].t # "undefined"}}]

\* buildUrl: the path, segment by segment, and the query parameters set on
\* the URL
buildUrl(path, query) ==
  [path |-> path,
   searchParams |-> {<<k, query[k].v>> :
                       k \in {k \in DOMAIN query :
                                query[k] # Undef /\ query[k] # Null /\ query[k] # Str("")}}]

\* the shapes fetchQuotes accepts: an array, or an object with items or data
ListResponse(shape, list) == [shape |-> shape, list |-> list]
NoList == ListResponse("none", <<>>)

\* Array.isArray(res) ? res : res?.items || res?.data || []
ListOf(res) == IF res.shape \in {"array", "items", "data"} THEN res.list ELSE <<>>

\* e?.payload?.detail || e?.message || fallback text
DetailMessage(e, text) ==
  IF e.payload = "detail" THEN "server detail"
  ELSE IF e.message # "" THEN e.message ELSE text

\* a call of a page: tryWithMock up to its first suspension, with the
\* request its live call sends and the fallback it was handed
PageCall(ep, ord, req, mock, none) ==
  LET c == TryWithMockStart(ep, 0, ord, 0)
  IN [req |-> req, mock |-> mock,
      val |-> IF c.st = "returned" THEN mock ELSE none] @@ c

PageResolve(c, v) == TryWithMockResolve(c, v)

PageReject(c, e) ==
  LET d == TryWithMockReject(c, e)
  IN IF d.ret = "fallback" THEN [d EXCEPT !.val = c.mock] ELSE d

\* client.js listQuotes({ status, minConfidence })
listQuotes(st, mc, ord) ==
  PageCall("listQuotes", ord,
           [method |-> "GET",
            url |-> buildUrl(<<"api", "quotes">>,
                             [assetId |-> Undef, status |-> st, minConfidence |-> mc]),
            body |-> Null],
           ListResponse("array", getMockQuoteList), NoList)

\* client.js updateQuote(quote_id, { approved })
updateQuote(id, appr, ord) ==
  PageCall("updateQuote", ord,
           [method |-> "PATCH", url |-> buildUrl(<<"api", "quotes", id>>, [none |-> Undef]),
            body |-> [approved |-> appr]],
           [getMockQuote(id) EXCEPT !.approved = appr], NoTrip.before)

\* the quote id in the URL of an updateQuote call
QuoteIdOf(c) == c.req.url.path[3]

\* what a step of a page is seen to do with the call c: its request is sent,
\* or c settled and its outcome is handed to the page
Sent(c) == [kind |-> "request", call |-> c]
Received(c) == [kind |-> "response", call |-> c]
Seen(c) == IF c.st = "inflight" THEN Sent(c) ELSE Received(c)

\* variant: only the approved flag of the response is taken over
ApplyUpdate_PatchApproved(prev, id, updated) ==
  [i \in DOMAIN prev |->
     IF prev[i].id = id THEN [prev[i] EXCEPT !.approved = updated.approved] ELSE prev[i]]

\* setQuotes((prev) => prev.map((q) => (q.id === id ? updated : q)))
ApplyUpdate(prev, id, updated) ==
  [i \in DOMAIN prev |-> IF prev[i].id = id THEN updated ELSE prev[i]]

\* the round trip observed: an approve applied to an entry starts it (anew,
\* when one was completed before), a reject applied to the same entry
\* afterwards completes it
TripAfter(trip, prev, c) ==
  LET hit == {i \in DOMAIN prev : prev[i].id = QuoteIdOf(c)}
      first == CHOOSE i \in hit : \A j \in hit : i <= j
  IN IF hit = {} THEN trip
     ELSE IF c.req.body.approved
       THEN IF trip.stage = 1 THEN trip
            ELSE [pos |-> first, before |-> prev[first], stage |-> 1]
     ELSE IF trip.stage = 1 /\ trip.pos \in hit
       THEN [trip EXCEPT !.stage = 2]
     ELSE trip

\* fetchQuotes after await listQuotes settled as c
FetchQuotesThen(qp, c) ==
  IF c.st = "returned"
    THEN RenderQuotes([qp EXCEPT !.quotes = ListOf(c.val), !.loading = FALSE,
                                 !.trip = NoTrip])
    ELSE [qp EXCEPT !.error = DetailMessage(c.thrown, "Failed to load quotes."),
                    !.loading = FALSE]

\* onApprove / onReject after await updateQuote settled as c
UpdateThen(qp, c) ==
  IF c.st = "returned"
    THEN RenderQuotes([qp EXCEPT !.quotes = ApplyUpdate(@, QuoteIdOf(c), c.val),
                                 !.trip = TripAfter(@, qp.quotes, c)])
    ELSE [qp EXCEPT !.error = DetailMessage(c.thrown,
                                IF c.req.body.approved THEN "Failed to approve quote."
                                ELSE "Failed to reject quote.")]

QuotesThen(qp, c) ==
  IF c.ep = "listQuotes" THEN FetchQuotesThen(qp, c) ELSE UpdateThen(qp, c)

\* fetchQuotes, qp holding the state of the render it was defined in
FetchQuotes(qp) ==
  LET c == listQuotes(IF qp.status = "all" THEN Null ELSE Str(qp.status),
                      IF qp.minConf > 0 THEN Num(qp.minConf) ELSE Null,
                      qp.calls + 1)
      qp1 == [qp EXCEPT !.loading = TRUE, !.error = "", !.calls = @ + 1]
  IN /\ wire' = Seen(c)
     /\ IF c.st = "returned"
          THEN /\ quotesPage' = FetchQuotesThen(qp1, c)
               /\ UNCHANGED inflight
          ELSE /\ quotesPage' = qp1
               /\ inflight' = inflight \cup {c}

QuotesFrame ==
  UNCHANGED <<mounted, assetId, statusInfo, polling, error, sessions, busy, last,
              exportPage, exportForm, exportResult, transcriptPage, mockData>>

\* QuotesPage is mounted: the effect on [status, minConf] runs fetchQuotes
MountQuotes ==
  /\ ~quotesPage.mounted
  /\ FetchQuotes([quotesPage EXCEPT !.mounted = TRUE])
  /\ UNCHANGED <<mockMode, server>>
  /\ QuotesFrame

\* QuoteFilters: another status is chosen; the effect runs fetchQuotes
SetStatus(s) ==
  /\ quotesPage.mounted
  /\ quotesPage.calls < MaxQuoteCalls
  /\ s # quotesPage.status
  /\ FetchQuotes([quotesPage EXCEPT !.status = s])
  /\ UNCHANGED <<mockMode, server>>
  /\ QuotesFrame

\* QuoteFilters: the confidence slider is moved; the effect runs fetchQuotes
SetMinConf(m) ==
  /\ quotesPage.mounted
  /\ quotesPage.calls < MaxQuoteCalls
  /\ m # quotesPage.minConf
  /\ FetchQuotes([quotesPage EXCEPT !.minConf = m])
  /\ UNCHANGED <<mockMode, server>>
  /\ QuotesFrame

\* QuoteFilters: Refresh, disabled while loading
RefreshQuotes ==
  /\ quotesPage.mounted
  /\ quotesPage.calls < MaxQuoteCalls
  /\ ~quotesPage.loading
  /\ FetchQuotes(quotesPage)
  /\ UNCHANGED <<mockMode, server>>
  /\ QuotesFrame

\* QuoteItem: Approve (appr) or Reject of a quote that is shown; Approve is
\* disabled on an approved quote and Reject on one that is not
UpdateQuote(i, appr) ==
  /\ quotesPage.mounted
  /\ quotesPage.calls < MaxQuoteCalls
  /\ ~quotesPage.loading
  /\ quotesPage.error = ""
  /\ i \in DOMAIN quotesPage.filteredQuotes
  /\ quotesPage.filteredQuotes[i].approved # appr
  /\ LET c == updateQuote(quotesPage.filteredQuotes[i].id, appr, quotesPage.calls + 1)
         qp1 == [quotesPage EXCEPT !.calls = @ + 1]
     IN /\ wire' = Seen(c)
        /\ IF c.st = "returned"
             THEN /\ quotesPage' = UpdateThen(qp1, c)
                  /\ UNCHANGED inflight
             ELSE /\ quotesPage' = qp1
                  /\ inflight' = inflight \cup {c}
  /\ UNCHANGED <<mockMode, server>>
  /\ QuotesFrame

\* the service answering GET /api/quotes: its quotes, filtered as asked
ServedQuotes(srv, params) ==
  LET Wanted(q) ==
        /\ <<"status", "approved">> \in params => q.approved
        /\ <<"status", "pending">> \in params => ~q.approved
        /\ <<"minConfidence", "0.5">> \in params => q.confidence >= 50
      all == <<srv["q1"], srv["q2"]>>
  IN SelectSeq(all, Wanted)

\* the service answering PATCH /api/quotes/{id}
PatchedQuotes(srv, c) ==
  IF QuoteIdOf(c) \in DOMAIN srv
    THEN [srv EXCEPT ![QuoteIdOf(c)].approved = c.req.body.approved]
    ELSE srv

\* what the service answers to the live request of c, and what it holds then
Answers(c) ==
  IF c.ep = "listQuotes"
    THEN {[val |-> ListResponse(sh, ServedQuotes(server, c.req.url.searchParams)),
           srv |-> server] : sh \in {"array", "items"}}
    ELSE {[val |-> PatchedQuotes(server, c)[QuoteIdOf(c)],
           srv |-> PatchedQuotes(server, c)]}

QuotesCalls == {c \in inflight : c.ep \in {"listQuotes", "updateQuote"}}

\* the live request of a QuotesPage call is answered with an ok response
SettleQuotesOk ==
  \E c \in QuotesCalls : \E a \in Answers(c) :
    LET d == PageResolve(c, a.val)
    IN /\ mockMode' = FlagAfterSuccess(mockMode)
       /\ server' = a.srv
       /\ inflight' = inflight \ {c}
       /\ wire' = Received(d)
       /\ quotesPage' = QuotesThen(quotesPage, d)
       /\ QuotesFrame

\* the failures drawn for the live request of a QuotesPage call
QuotesErrors == {NetworkError, HttpError(404, "none"), HttpError(500, "detail")}

\* the live request of a QuotesPage call fails
SettleQuotesErr ==
  \E c \in QuotesCalls : \E e \in QuotesErrors :
    LET d == PageReject(c, e)
    IN /\ mockMode' = IF IsConnectivityError(e) THEN enableMockMode ELSE mockMode
       /\ inflight' = inflight \ {c}
       /\ wire' = Received(d)
       /\ quotesPage' = QuotesThen(quotesPage, d)
       /\ UNCHANGED server
       /\ QuotesFrame

NextQuotes ==
  \/ MountQuotes
  \/ \E s \in FilterStatuses : SetStatus(s)
  \/ \E m \in MinConfs : SetMinConf(m)
  \/ RefreshQuotes
  \/ \E i \in 1..MaxQuotes : \E appr \in BOOLEAN : UpdateQuote(i, appr)
  \/ SettleQuotesOk
  \/ SettleQuotesErr

SpecQuotes == Init /\ [][NextQuotes]_vars

\* ------------------------------------------------------ ExportForm at work
ExportFormats == {"plain_text", "json", "twitter", "linkedin", "instagram", "srt", "vtt"}
TitleChars == {"M", " "}

\* a text handed on as title or author, or null in its place
JsNull == [t |-> "null", chars |-> <<>>]
JsText(s) == [t |-> "string", chars |-> s]

\* x || y for a text x: the empty string is falsy
OrElse(x, y) == IF x.t = "string" /\ x.chars # <<>> THEN x ELSE y

Range(s) == {s[i] : i \in DOMAIN s}

\* variant: title and author are handed on as typed
FormValues_NoTrim(form) ==
  [format |-> form.format,
   title |-> OrElse(JsText(form.title), JsText(<<>>)),
   author |-> OrElse(JsText(form.author), JsText(<<>>)),
   quoteIds |-> form.selected]

\* ExportForm onSubmitClick: what it hands to onSubmit
FormValues(form) ==
  [format |-> form.format,
   title |-> OrElse(JsText(trim(form.title)), JsText(<<>>)),
   author |-> OrElse(JsText(trim(form.author)), JsText(<<>>)),
   quoteIds |-> form.selected]

\* variant: title and author go into the payload as the form handed them on
ExportPayload_AsHanded(fv) ==
  [quote_ids |-> fv.quoteIds, format |-> fv.format, title |-> fv.title, author |-> fv.author]

\* ExportPage onSubmitExport: the payload built from the form values
ExportPayload(fv) ==
  [quote_ids |-> fv.quoteIds, format |-> fv.format,
   title |-> OrElse(fv.title, JsNull), author |-> OrElse(fv.author, JsNull)]

\* variant: a toggle only ever adds the id
onToggleQuote_AddOnly(selected, id) ==
  IF id \in Range(selected) THEN selected ELSE Append(selected, id)

\* ExportForm onToggleQuote: next.delete(id) or next.add(id)
onToggleQuote(selected, id) ==
  LET Other(x) == x # id
  IN IF id \in Range(selected) THEN SelectSeq(selected, Other) ELSE Append(selected, id)

\* new Set(ids), in insertion order
RECURSIVE NewSet(_, _)
NewSet(ids, acc) ==
  IF ids = <<>> THEN acc
  ELSE NewSet(Tail(ids), IF Head(ids) \in Range(acc) THEN acc ELSE Append(acc, Head(ids)))

\* ExportForm onSelectAll and onClearAll
onSelectAll(quoteArray) == NewSet([i \in DOMAIN quoteArray |-> quoteArray[i].id], <<>>)
onClearAll == <<>>

\* ------------------------------------------------- ExportPage and its result
\* a job response: flat, or wrapped in an object with the field export
Flat(j) == [export |-> NoJob, id |-> j.id, format |-> j.format, status |-> j.status]
Wrapped(j) ==
  [export |-> j, id |-> "undefined", format |-> "undefined", status |-> "undefined"]
NoResponse == Flat(NoJob)

\* variant: the response is held as it came
Unwrap_AsIs(res) == Job(res.id, res.format, res.status)

\* res?.export || res
Unwrap(res) ==
  IF res.export # NoJob THEN res.export ELSE Job(res.id, res.format, res.status)

\* !!x of an id
Truthy(id) == id \notin {"null", "undefined", ""}

\* typeof res
TypeOf(payload) == IF payload.type = "null" THEN "object" ELSE payload.type

PayloadTypes == {"string", "object", "null", "number"}
NoPayload == Payload("none")

\* { download: 1 }
One == [t |-> "number", v |-> "1"]

\* a call with the site that made it and the values its continuation closes over
ExportCall(by, ctx, c) == [by |-> by, ctx |-> ctx] @@ c

\* the call c as it goes when the flag has been set earlier in the same step
Under(flag, c) ==
  IF flag /\ c.st = "inflight"
    THEN [c EXCEPT !.live = FALSE, !.st = "returned", !.ret = "fallback", !.val = c.mock]
    ELSE c

\* client.js createExportJob(payload)
createExportJob(payload, ord) ==
  PageCall("createExportJob", ord,
           [method |-> "POST", url |-> buildUrl(<<"api", "exports">>, [none |-> Undef]),
            body |-> payload],
           Wrapped(getMockExportJob), NoResponse)

\* client.js getExportJob(job_id, { download })
getExportJob(job_id, download, ord) ==
  IF download = One
    THEN PageCall("getExportJob", ord,
                  [method |-> "GET",
                   url |-> buildUrl(<<"api", "exports", job_id>>, [download |-> download]),
                   body |-> Null],
                  getMockExportResult, NoPayload)
    ELSE PageCall("getExportJob", ord,
                  [method |-> "GET",
                   url |-> buildUrl(<<"api", "exports", job_id>>, [download |-> download]),
                   body |-> Null],
                  Flat(getMockExportJob), NoResponse)

\* variant: every export is taken for plain text
inferExtension_AllTxt(format) == "txt"

\* ExportResult inferExtension
inferExtension(format) ==
  CASE format = "json" -> "json"
    [] format = "srt" -> "srt"
    [] format = "vtt" -> "vtt"
    [] format \in {"twitter", "linkedin", "instagram", "plain_text"} -> "txt"
    [] OTHER -> "txt"

\* ExportResult onDownload: the name of the file it hands to the browser
DownloadName(job, payload) ==
  IF TypeOf(payload) = "string" THEN <<"export-", job.id, ".", inferExtension(job.format)>>
  ELSE IF TypeOf(payload) = "object" THEN <<"export-", job.id, ".", "json">>
  ELSE <<"export-", job.id, ".", inferExtension(job.format)>>

\* the preview effect of ExportResult after await getExportJob settled as c;
\* the run that made the call is active while no later run has started
PreviewThen(er, c) ==
  IF c.ord # er.run THEN er
  ELSE IF c.st = "thrown"
    THEN [er EXCEPT !.previewError = DetailMessage(c.thrown, "Failed to load preview."),
                    !.loadingPreview = FALSE]
  ELSE IF TypeOf(c.val) = "string"
    THEN [er EXCEPT !.preview = "raw text", !.previewType = "text", !.loadingPreview = FALSE]
  ELSE IF TypeOf(c.val) = "object" /\ c.val.type # "null"
    THEN [er EXCEPT !.preview = "JSON text", !.previewType = "json", !.loadingPreview = FALSE]
  ELSE [er EXCEPT !.preview = "String(res)", !.previewType = "text", !.loadingPreview = FALSE]

\* variant: the preview is fetched for every job with an id, whatever its status
PreviewRun_AnyStatus(er, job, flag) ==
  IF ~Truthy(job.id)
    THEN [er |-> [er EXCEPT !.run = @ + 1, !.deps = job, !.fetched = FALSE,
                            !.preview = "", !.previewError = ""],
          calls |-> {}]
    ELSE LET c == Under(flag, ExportCall("preview", job, getExportJob(job.id, One, er.run + 1)))
             er1 == [er EXCEPT !.run = @ + 1, !.deps = job, !.fetched = TRUE,
                               !.loadingPreview = TRUE, !.previewError = ""]
         IN IF c.st = "returned"
              THEN [er |-> PreviewThen(er1, c), calls |-> {}]
              ELSE [er |-> er1, calls |-> {c}]

\* a run of the preview effect for job: the state of ExportResult after it
\* and the call it leaves outstanding, if any
PreviewRun(er, job, flag) ==
  IF ~Truthy(job.id) \/ job.status # "completed"
    THEN [er |-> [er EXCEPT !.run = @ + 1, !.deps = job, !.fetched = FALSE,
                            !.preview = "", !.previewError = ""],
          calls |-> {}]
    ELSE LET c == Under(flag, ExportCall("preview", job, getExportJob(job.id, One, er.run + 1)))
             er1 == [er EXCEPT !.run = @ + 1, !.deps = job, !.fetched = TRUE,
                               !.loadingPreview = TRUE, !.previewError = ""]
         IN IF c.st = "returned"
              THEN [er |-> PreviewThen(er1, c), calls |-> {}]
              ELSE [er |-> er1, calls |-> {c}]

\* the render after the job went from old to new: the preview effect runs
\* when job?.id or job?.status changed
JobEffect(er, old, new, flag) ==
  IF old.id = new.id /\ old.status = new.status
    THEN [er |-> er, calls |-> {}]
    ELSE PreviewRun(er, new, flag)

ExportFrame ==
  UNCHANGED <<mounted, assetId, statusInfo, polling, error, sessions, busy, last, quotesPage,
              transcriptPage, mockData>>

\* the form is shown and enabled
FormEnabled ==
  /\ exportPage.mounted
  /\ ~exportPage.loadingQuotes
  /\ exportPage.quotesError = ""
  /\ Len(exportPage.quotes) > 0
  /\ ~exportPage.submitting

FormFrame ==
  /\ wire' = NoWire
  /\ UNCHANGED <<mockMode, inflight, server, exportPage, exportResult>>
  /\ ExportFrame

\* ExportForm: a format is chosen
SetFormat(f) ==
  /\ FormEnabled
  /\ f # exportForm.format
  /\ exportForm' = [exportForm EXCEPT !.format = f]
  /\ FormFrame

\* title and author are shown for the text formats only
isMetaApplicable == exportForm.format \in {"plain_text", "twitter", "linkedin", "instagram"}

\* ExportForm: a character is typed into the title field
TypeTitle(ch) ==
  /\ FormEnabled
  /\ isMetaApplicable
  /\ Len(exportForm.title) < MaxTitleLen
  /\ exportForm' = [exportForm EXCEPT !.title = Append(@, ch)]
  /\ FormFrame

\* ExportForm: a character is typed into the author field
TypeAuthor(ch) ==
  /\ FormEnabled
  /\ isMetaApplicable
  /\ Len(exportForm.author) < MaxTitleLen
  /\ exportForm' = [exportForm EXCEPT !.author = Append(@, ch)]
  /\ FormFrame

\* ExportForm: the checkbox of the i-th quote is clicked
ToggleQuote(i) ==
  /\ FormEnabled
  /\ i \in DOMAIN exportPage.quotes
  /\ exportForm' = [exportForm EXCEPT !.selected = onToggleQuote(@, exportPage.quotes[i].id)]
  /\ FormFrame

\* ExportForm: Select All
SelectAll ==
  /\ FormEnabled
  /\ exportForm' = [exportForm EXCEPT !.selected = onSelectAll(exportPage.quotes)]
  /\ FormFrame

\* ExportForm: Clear, disabled on an empty selection
ClearAll ==
  /\ FormEnabled
  /\ Len(exportForm.selected) > 0
  /\ exportForm' = [exportForm EXCEPT !.selected = onClearAll]
  /\ FormFrame

\* onSubmitExport after await createExportJob settled as c, and the render
\* that follows
SubmitThen(xp, er, c, flag) ==
  IF c.st = "returned"
    THEN LET e == JobEffect(er, xp.job, Unwrap(c.val), flag)
         IN [xp |-> [xp EXCEPT !.job = Unwrap(c.val), !.submitting = FALSE],
             er |-> e.er, calls |-> e.calls]
    ELSE [xp |-> [xp EXCEPT !.jobError = DetailMessage(c.thrown, "Failed to create export."),
                            !.submitting = FALSE],
          er |-> er, calls |-> {}]

\* refreshJob after await getExportJob settled as c
RefreshThen(xp, er, c, flag) ==
  IF c.st = "returned"
    THEN LET e == JobEffect(er, xp.job, Unwrap(c.val), flag)
         IN [xp |-> [xp EXCEPT !.job = Unwrap(c.val)], er |-> e.er, calls |-> e.calls]
    ELSE [xp |-> [xp EXCEPT !.jobError =
                              DetailMessage(c.thrown, "Failed to refresh export job.")],
          er |-> er, calls |-> {}]

\* the load of the approved quotes after await listQuotes settled as c
LoadThen(xp, er, c) ==
  IF c.st = "returned"
    THEN [xp |-> [xp EXCEPT !.quotes = ListOf(c.val), !.loadingQuotes = FALSE],
          er |-> er, calls |-> {}]
    ELSE [xp |-> [xp EXCEPT !.quotesError = DetailMessage(c.thrown, "Failed to load quotes."),
                            !.loadingQuotes = FALSE],
          er |-> er, calls |-> {}]

\* onDownload after await getExportJob settled as c
DownloadThen(xp, er, c) ==
  IF c.st = "returned"
    THEN [xp |-> xp, er |-> er, calls |-> {}]
    ELSE [xp |-> xp, er |-> [er EXCEPT !.previewError = "Download failed. Try again."],
          calls |-> {}]

\* what the page does once the call c of it settled
ExportThen(xp, er, c, flag) ==
  CASE c.by = "load" -> LoadThen(xp, er, c)
    [] c.by = "submit" -> SubmitThen(xp, er, c, flag)
    [] c.by = "refresh" -> RefreshThen(xp, er, c, flag)
    [] c.by = "preview" -> [xp |-> xp, er |-> PreviewThen(er, c), calls |-> {}]
    [] OTHER -> DownloadThen(xp, er, c)

\* what the step that settled c is seen to do: a download that came back
\* writes a file
SeenSettled(c) ==
  IF c.by = "download" /\ c.st = "returned"
    THEN [kind |-> "file", call |-> c, filename |-> DownloadName(c.ctx, c.val)]
    ELSE Received(c)

\* a step of the page that starts the call c from the page state xp and the
\* result state er
StartExportCall(xp, er, c) ==
  IF c.st = "inflight"
    THEN /\ exportPage' = xp
         /\ exportResult' = er
         /\ inflight' = inflight \cup {c}
         /\ wire' = Sent(c)
    ELSE LET r == ExportThen(xp, er, c, mockMode)
         IN /\ exportPage' = r.xp
            /\ exportResult' = r.er
            /\ inflight' = inflight \cup r.calls
            /\ wire' = SeenSettled(c)

\* ExportPage is mounted: the approved quotes are asked for, and the preview
\* effect of ExportResult runs for the first time
MountExport ==
  /\ ~exportPage.mounted
  /\ StartExportCall([exportPage EXCEPT !.mounted = TRUE],
                     PreviewRun(exportResult, exportPage.job, mockMode).er,
                     ExportCall("load", NoJob, listQuotes(Str("approved"), Undef, 0)))
  /\ UNCHANGED <<mockMode, server, exportForm>>
  /\ ExportFrame

\* ExportForm: Generate Export.  The render with job null comes before the
\* call settles, even when it settles at once
Submit ==
  /\ FormEnabled
  /\ exportPage.calls < MaxExportCalls
  /\ LET fv == FormValues(exportForm)
         c == ExportCall("submit", fv,
                         createExportJob(ExportPayload(fv), exportPage.calls + 1))
         e == JobEffect(exportResult, exportPage.job, NoJob, mockMode)
     IN StartExportCall([exportPage EXCEPT !.submitting = TRUE, !.jobError = "",
                                           !.job = NoJob, !.calls = @ + 1],
                        e.er, c)
  /\ UNCHANGED <<mockMode, server, exportForm>>
  /\ ExportFrame

\* the progress bar is shown
showProgress ==
  exportPage.submitting \/ exportPage.job.status \in {"processing", "pending"}

\* ExportResult: Refresh, enabled when a job is held and no progress is shown
RefreshJob ==
  /\ exportPage.mounted
  /\ exportPage.job # NoJob
  /\ ~showProgress
  /\ Truthy(exportPage.job.id)
  /\ exportPage.calls < MaxExportCalls
  /\ StartExportCall([exportPage EXCEPT !.calls = @ + 1], exportResult,
                     ExportCall("refresh", exportPage.job,
                                getExportJob(exportPage.job.id, Undef, exportPage.calls + 1)))
  /\ UNCHANGED <<mockMode, server, exportForm>>
  /\ ExportFrame

\* ExportResult: Download, enabled for a completed job
Download ==
  /\ exportPage.mounted
  /\ ~showProgress
  /\ exportPage.job.status = "completed"
  /\ Truthy(exportPage.job.id)
  /\ exportPage.calls < MaxExportCalls
  /\ StartExportCall([exportPage EXCEPT !.calls = @ + 1], exportResult,
                     ExportCall("download", exportPage.job,
                                getExportJob(exportPage.job.id, One, exportPage.calls + 1)))
  /\ UNCHANGED <<mockMode, server, exportForm>>
  /\ ExportFrame

JobIds == <<"e1", "e2", "e3", "e4">>

\* what the service answers to the live request of the export page's call c
ExportAnswers(c) ==
  CASE c.by = "load" -> {a.val : a \in Answers(c)}
    [] c.by = "submit" ->
         {Flat(Job(JobIds[c.ord], c.req.body.format, "pending")),
          Wrapped(Job(JobIds[c.ord], c.req.body.format, "completed"))}
    [] c.by = "refresh" ->
         {Flat(Job(c.ctx.id, c.ctx.format, "completed")),
          Wrapped(Job(c.ctx.id, c.ctx.format, "failed"))}
    [] OTHER -> {Payload(ty) : ty \in PayloadTypes}

ExportCalls == {c \in inflight : c.ep \in {"listQuotes", "createExportJob", "getExportJob"}}

\* the live request of a call of the export page is answered with an ok response
SettleExportOk ==
  \E c \in ExportCalls : \E v \in ExportAnswers(c) :
    LET d == PageResolve(c, v)
        r == ExportThen(exportPage, exportResult, d, FlagAfterSuccess(mockMode))
    IN /\ mockMode' = FlagAfterSuccess(mockMode)
       /\ exportPage' = r.xp
       /\ exportResult' = r.er
       /\ inflight' = (inflight \ {c}) \cup r.calls
       /\ wire' = SeenSettled(d)
       /\ UNCHANGED <<server, exportForm>>
       /\ ExportFrame

\* the failures drawn for the live request of a call of the export page
ExportErrors == {NetworkError, HttpError(500, "detail")}

\* the live request of a call of the export page fails
SettleExportErr ==
  \E c \in ExportCalls : \E e \in ExportErrors :
    LET d == PageReject(c, e)
        flag == IF IsConnectivityError(e) THEN enableMockMode ELSE mockMode
        r == ExportThen(exportPage, exportResult, d, flag)
    IN /\ mockMode' = flag
       /\ exportPage' = r.xp
       /\ exportResult' = r.er
       /\ inflight' = (inflight \ {c}) \cup r.calls
       /\ wire' = SeenSettled(d)
       /\ UNCHANGED <<server, exportForm>>
       /\ ExportFrame

NextExport ==
  \/ MountExport
  \/ \E f \in ExportFormats : SetFormat(f)
  \/ Submit
  \/ RefreshJob
  \/ Download
  \/ SettleExportOk
  \/ SettleExportErr

SpecExport == Init /\ [][NextExport]_vars

\* ------------------------------------------------------ the form on its own
\* the lists of approved quotes the form is shown with
ApprovedLists ==
  {<<InitServer["q2"]>>,
   <<[InitServer["q1"] EXCEPT !.approved = TRUE], InitServer["q2"]>>,
   getMockQuoteList}

\* ExportPage with its quotes loaded and the form untouched
InitExportFormShown ==
  /\ InitUpload
  /\ InitShared
  /\ quotesPage = InitQuotesPage
  /\ \E l \in ApprovedLists :
       exportPage = [InitExportPage EXCEPT !.mounted = TRUE, !.loadingQuotes = FALSE,
                                           !.quotes = l]
  /\ exportForm = InitExportForm
  /\ exportResult = PreviewRun(InitExportResult, NoJob, FALSE).er
  /\ server = InitServer
  /\ wire = NoWire

NextExportForm ==
  \/ \E f \in ExportFormats : SetFormat(f)
  \/ \E ch \in TitleChars : TypeTitle(ch)
  \/ \E ch \in TitleChars : TypeAuthor(ch)
  \/ \E i \in 1..MaxQuotes : ToggleQuote(i)
  \/ SelectAll
  \/ ClearAll
  \/ Submit

SpecExportForm == InitExportFormShown /\ [][NextExportForm]_vars

\* --------------------------------------------------- TranscriptPage at work
MaxTextLen == 3
MaxTranscriptCalls == 4

\* the letters typed into the editor
TextChars == {"x", "y"}

\* the transcript the service holds when the page is opened
ServedTranscript == Transcript(FALSE, "t1", <<"s">>)

\* getMockTranscriptList: an array holding MOCK_TRANSCRIPT
getMockTranscriptList == ListResponse("array", <<getMockTranscript>>)

\* what the fallback function handed over by the client function ep returns
MockOf(ep) == IF ep = "listTranscripts" THEN getMockTranscriptList ELSE getMockTranscript

TranscriptReq(method, path, body) ==
  [method |-> method, url |-> buildUrl(path, [none |-> Undef]), body |-> body]

\* client.js listTranscripts()
listTranscripts(ord) ==
  PageCall("listTranscripts", ord, TranscriptReq("GET", <<"api", "transcripts">>, Null),
           MockOf("listTranscripts"), NoList)

\* client.js getTranscript(transcript_id)
getTranscript(id, ord) ==
  PageCall("getTranscript", ord, TranscriptReq("GET", <<"api", "transcripts", id>>, Null),
           MockOf("getTranscript"), NoTranscript)

\* client.js updateTranscript(transcript_id, payload)
updateTranscript(id, payload, ord) ==
  PageCall("updateTranscript", ord,
           TranscriptReq("PUT", <<"api", "transcripts", id>>, payload),
           MockOf("updateTranscript"), NoTranscript)

\* client.js appendTranscriptSegment(transcript_id, payload)
appendTranscriptSegment(id, payload, ord) ==
  PageCall("appendTranscriptSegment", ord,
           TranscriptReq("POST", <<"api", "transcripts", id, "segments">>, payload),
           MockOf("appendTranscriptSegment"), NoTranscript)

\* variant: the text is written into the transcript that is held
EditTranscript_InPlace(m, prev, txt) ==
  [mockData |-> IF prev.shared THEN [m EXCEPT !.transcript.text = txt] ELSE m,
   transcript |-> [prev EXCEPT !.text = txt]]

\* onChange of the editor: setTranscript((prev) => ({ ...(prev || {}), text: txt })),
\* m being what mockData.js holds; a new object takes the text
EditTranscript(m, prev, txt) ==
  [mockData |-> m, transcript |-> [prev EXCEPT !.shared = FALSE, !.text = txt]]

\* TranscriptEditor is rendered
EditorShown(tp) == tp.transcript # NoTranscript /\ ~tp.loadingTranscript

\* the page rendered with state tp after prev: TranscriptEditor is mounted
\* with the text of the transcript, takes it over again when the id of the
\* transcript changed, and loses its state when it is unmounted
RenderTranscript(prev, tp) ==
  IF ~EditorShown(tp)
    THEN [tp EXCEPT !.localText = <<>>, !.dirty = FALSE, !.note = ""]
  ELSE IF ~EditorShown(prev)
    THEN [tp EXCEPT !.localText = tp.transcript.text, !.dirty = FALSE, !.note = ""]
  ELSE IF tp.transcript.id # prev.transcript.id
    THEN [tp EXCEPT !.localText = tp.transcript.text, !.dirty = FALSE]
  ELSE tp

\* the first effect after await listTranscripts settled as c; selectedId is
\* the one of the render the effect ran in, the first
ListTranscriptsThen(tp, c) ==
  IF c.st = "returned"
    THEN LET items == ListOf(c.val)
         IN [tp EXCEPT !.transcripts = [i \in DOMAIN items |-> items[i].id],
                       !.selectedId = IF Len(items) > 0 THEN items[1].id ELSE @,
                       !.loadingList = FALSE]
    ELSE [tp EXCEPT !.error = DetailMessage(c.thrown, "Failed to list transcripts."),
                    !.loadingList = FALSE]

\* the effect on [selectedId] after await getTranscript settled as c
GetTranscriptThen(tp, c) ==
  IF c.st = "returned"
    THEN [tp EXCEPT !.transcript = c.val, !.loadingTranscript = FALSE]
    ELSE [tp EXCEPT !.error = DetailMessage(c.thrown, "Failed to load transcript."),
                    !.loadingTranscript = FALSE]

\* onSave after await updateTranscript settled as c
SaveThen(tp, c) ==
  IF c.st = "returned"
    THEN [tp EXCEPT !.transcript = c.val, !.flash = "Saved successfully.",
                    !.timers = @ + 1, !.saving = FALSE]
    ELSE [tp EXCEPT !.error = DetailMessage(c.thrown, "Failed to save transcript."),
                    !.saving = FALSE]

\* doAppendSegment after await appendTranscriptSegment settled as c
AppendThen(tp, c) ==
  IF ~EditorShown(tp) THEN tp
  ELSE IF c.st = "returned"
    THEN [tp EXCEPT !.note = "Segment appended."]
    ELSE [tp EXCEPT !.note = DetailMessage(c.thrown, "Failed to append segment.")]

TranscriptThen(tp, c) ==
  RenderTranscript(tp,
    CASE c.ep = "listTranscripts" -> ListTranscriptsThen(tp, c)
      [] c.ep = "getTranscript" -> GetTranscriptThen(tp, c)
      [] c.ep = "updateTranscript" -> SaveThen(tp, c)
      [] OTHER -> AppendThen(tp, c))

\* the page goes from prev to tp in a step that was seen to do seen and
\* leaves the calls of rest in flight, the flag being flag: when another
\* transcript got selected, the effect on [selectedId] runs
SelectedThen(prev, tp, flag, seen, rest) ==
  IF tp.selectedId # prev.selectedId /\ tp.selectedId # ""
    THEN LET c == Under(flag, getTranscript(tp.selectedId, tp.calls + 1))
             tp1 == RenderTranscript(tp, [tp EXCEPT !.loadingTranscript = TRUE, !.error = "",
                                                    !.transcript = NoTranscript,
                                                    !.calls = @ + 1])
         IN /\ wire' = Seen(c)
            /\ IF c.st = "returned"
                 THEN /\ transcriptPage' = TranscriptThen(tp1, c)
                      /\ inflight' = rest
                 ELSE /\ transcriptPage' = tp1
                      /\ inflight' = rest \cup {c}
    ELSE /\ wire' = seen
         /\ transcriptPage' = tp
         /\ inflight' = rest

TranscriptFrame ==
  UNCHANGED <<mounted, assetId, statusInfo, polling, error, sessions, busy, last,
              quotesPage, exportPage, exportForm, exportResult, server>>

\* TranscriptPage is mounted: the first effect lists the transcripts, the
\* second finds none selected
MountTranscript ==
  /\ ~transcriptPage.mounted
  /\ LET c == listTranscripts(1)
         tp1 == [transcriptPage EXCEPT !.mounted = TRUE, !.loadingList = TRUE, !.error = "",
                                       !.calls = 1]
     IN IF c.st = "returned"
          THEN SelectedThen(tp1, TranscriptThen(tp1, c), mockMode, Seen(c), inflight)
          ELSE /\ wire' = Seen(c)
               /\ transcriptPage' = tp1
               /\ inflight' = inflight \cup {c}
  /\ UNCHANGED <<mockMode, mockData>>
  /\ TranscriptFrame

\* a letter is typed at the end of the text in the editor: onTextChange,
\* and onChange of the page
TypeText(ch) ==
  /\ EditorShown(transcriptPage)
  /\ Len(transcriptPage.localText) < MaxTextLen
  /\ LET val == Append(transcriptPage.localText, ch)
         r == EditTranscript(mockData, transcriptPage.transcript, val)
     IN /\ transcriptPage' = [transcriptPage EXCEPT !.localText = val, !.dirty = TRUE,
                                                    !.transcript = r.transcript]
        /\ mockData' = r.mockData
  /\ wire' = NoWire
  /\ UNCHANGED <<mockMode, inflight>>
  /\ TranscriptFrame

\* onSave, by the Save button, disabled while saving and while nothing was
\* typed, or by Ctrl+S (key), which the editor hands on as it comes
Save(key) ==
  /\ EditorShown(transcriptPage)
  /\ transcriptPage.calls < MaxTranscriptCalls
  /\ key \/ (~transcriptPage.saving /\ transcriptPage.dirty)
  /\ transcriptPage.transcript.id # ""
  /\ LET c == updateTranscript(transcriptPage.transcript.id,
                               [text |-> transcriptPage.transcript.text],
                               transcriptPage.calls + 1)
         tp1 == [transcriptPage EXCEPT !.saving = TRUE, !.error = "", !.flash = "",
                                       !.calls = @ + 1]
     IN /\ wire' = Seen(c)
        /\ IF c.st = "returned"
             THEN /\ transcriptPage' = TranscriptThen(tp1, c)
                  /\ UNCHANGED inflight
             ELSE /\ transcriptPage' = tp1
                  /\ inflight' = inflight \cup {c}
  /\ UNCHANGED <<mockMode, mockData>>
  /\ TranscriptFrame

\* the whole text is selected in the editor and Append segment is pressed
AppendSegment ==
  /\ EditorShown(transcriptPage)
  /\ transcriptPage.calls < MaxTranscriptCalls
  /\ transcriptPage.localText # <<>>
  /\ transcriptPage.transcript.id # ""
  /\ LET c == appendTranscriptSegment(transcriptPage.transcript.id,
                                      [text |-> transcriptPage.localText],
                                      transcriptPage.calls + 1)
         tp1 == [transcriptPage EXCEPT !.calls = @ + 1]
     IN /\ wire' = Seen(c)
        /\ IF c.st = "returned"
             THEN /\ transcriptPage' = TranscriptThen(tp1, c)
                  /\ UNCHANGED inflight
             ELSE /\ transcriptPage' = tp1
                  /\ inflight' = inflight \cup {c}
  /\ UNCHANGED <<mockMode, mockData>>
  /\ TranscriptFrame

\* a timer set by onSave after a save went through runs out
FlashTimeout ==
  /\ transcriptPage.timers > 0
  /\ transcriptPage' = [transcriptPage EXCEPT !.flash = "", !.timers = @ - 1]
  /\ wire' = NoWire
  /\ UNCHANGED <<mockMode, inflight, mockData>>
  /\ TranscriptFrame

\* what the service answers to the live request of c: the list with its
\* transcript or without any, the transcript, and the transcript with the
\* text it was sent
TranscriptAnswers(c) ==
  CASE c.ep = "listTranscripts" ->
         {ListResponse(sh, <<ServedTranscript>>) : sh \in {"array", "items"}}
           \cup {ListResponse("array", <<>>)}
    [] c.ep = "updateTranscript" -> {Transcript(FALSE, c.req.url.path[3], c.req.body.text)}
    [] OTHER -> {[ServedTranscript EXCEPT !.id = c.req.url.path[3]]}

TranscriptCalls ==
  {c \in inflight : c.ep \in {"listTranscripts", "getTranscript", "updateTranscript",
                              "appendTranscriptSegment"}}

\* the live request of a TranscriptPage call is answered with an ok response
SettleTranscriptOk ==
  \E c \in TranscriptCalls : \E v \in TranscriptAnswers(c) :
    LET d == PageResolve(c, v)
    IN /\ mockMode' = FlagAfterSuccess(mockMode)
       /\ SelectedThen(transcriptPage, TranscriptThen(transcriptPage, d), mockMode',
                       Received(d), inflight \ {c})
       /\ UNCHANGED mockData
       /\ TranscriptFrame

\* the failures drawn for the live request of a TranscriptPage call
TranscriptErrors == {NetworkError, HttpError(500, "detail")}

\* the live request of a TranscriptPage call fails; the fallback function
\* is called then
SettleTranscriptErr ==
  \E c \in TranscriptCalls : \E e \in TranscriptErrors :
    LET r == PageReject(c, e)
        d == IF r.ret = "fallback" THEN [r EXCEPT !.val = MockOf(c.ep)] ELSE r
    IN /\ mockMode' = IF IsConnectivityError(e) THEN enableMockMode ELSE mockMode
       /\ SelectedThen(transcriptPage, TranscriptThen(transcriptPage, d), mockMode',
                       Received(d), inflight \ {c})
       /\ UNCHANGED mockData
       /\ TranscriptFrame

NextTranscript ==
  \/ MountTranscript
  \/ \E ch \in TextChars : TypeText(ch)
  \/ \E key \in BOOLEAN : Save(key)
  \/ AppendSegment
  \/ FlashTimeout
  \/ SettleTranscriptOk
  \/ SettleTranscriptErr

SpecTranscript == Init /\ [][NextTranscript]_vars

\* ------------------------------------------------- the pages in mock mode
\* the pages are routes of one application: one of them is open at a time
NoPageOpen == ~quotesPage.mounted /\ ~exportPage.mounted /\ ~transcriptPage.mounted

\* the page that is open is left with none of its calls in flight: it is
\* unmounted and its state is gone
LeavePage ==
  /\ ~NoPageOpen
  /\ quotesPage' = InitQuotesPage
  /\ exportPage' = InitExportPage
  /\ exportForm' = InitExportForm
  /\ exportResult' = InitExportResult
  /\ transcriptPage' = InitTranscriptPage
  /\ wire' = NoWire
  /\ UNCHANGED <<mockMode, inflight, mounted, assetId, statusInfo, polling, error, sessions,
                 busy, last, server, mockData>>

\* a health check that finds no service sets the flag; the pages are used
\* once it is set, and every call of theirs is answered from mockData.js
NextMock ==
  \/ ApiCall("healthCheck")
  \/ SettleOk
  \/ SettleErr
  \/ /\ mockMode
     /\ \/ NoPageOpen /\ (MountQuotes \/ MountExport \/ MountTranscript)
        \/ LeavePage
        \/ RefreshQuotes
        \/ \E i \in 1..MaxQuotes : \E appr \in BOOLEAN : UpdateQuote(i, appr)
        \/ Submit
        \/ RefreshJob
        \/ \E ch \in TextChars : TypeText(ch)
        \/ \E key \in BOOLEAN : Save(key)
        \/ AppendSegment
        \/ FlashTimeout

SpecMock == Init /\ [][NextMock]_vars

\* ------------------------------------------- a job held, then a new one
\* the job of an earlier submission
HeldJob == Job("e0", "plain_text", "completed")

\* ExportPage with its quotes loaded, holding the completed job of an
\* earlier submission with its preview shown
InitExportHeld ==
  /\ InitUpload
  /\ InitShared
  /\ quotesPage = InitQuotesPage
  /\ exportPage = [InitExportPage EXCEPT !.mounted = TRUE, !.loadingQuotes = FALSE,
                                         !.quotes = <<InitServer["q2"]>>, !.job = HeldJob]
  /\ exportForm = InitExportForm
  /\ exportResult = [InitExportResult EXCEPT !.run = 2, !.deps = HeldJob, !.fetched = TRUE,
                                             !.preview = "raw text"]
  /\ server = InitServer
  /\ wire = NoWire

NextExportRace ==
  \/ Submit
  \/ RefreshJob
  \/ SettleExportOk
  \/ SettleExportErr

SpecExportRace == InitExportHeld /\ [][NextExportRace]_vars

\* =================================================================== claims
ConnectivityStatuses == {Undefined, 0, 404}
StatusCalls(s) == {c \in inflight : c.ep = "getUploadStatus" /\ c.sess = s}
IsCurrent(s) == s = Len(sessions)

\* C1: once the mock flag is set, every orchestrated call of any endpoint that
\* is started afterwards returns its fallback at once and never invokes its
\* live call; no call started under the flag is ever outstanding.
C1_MockShortCircuit ==
  (last.kind = "start" /\ last.flagBefore) =>
     /\ ~last.call.live
     /\ last.call.st = "returned"
     /\ last.call.ret = "fallback"
     /\ last.call.val = MockData(last.call.ep)
     /\ last.call \notin inflight

C1_Witness ==
  /\ mockMode
  /\ last.kind = "start"
  /\ last.flagBefore
  /\ last.call.ep = "listAssets"
  /\ last.call.ret = "fallback"
  /\ \E c \in inflight : c.ep = "healthCheck"

\* C2: the mock flag is false at process start and never goes from true back
\* to false, whatever client calls are started and however they settle.
C2_FlagMonotonic == (mockMode = FALSE) /\ [][mockMode => mockMode']_vars

C2_Witness ==
  /\ mockMode
  /\ last.kind = "settle"
  /\ last.flagBefore
  /\ last.call.ret = "live"

\* C3: with the flag not set, a live call failing with a connectivity-class
\* error (no status, status 0, status 404) sets the flag and hands the
\* fallback to the caller; nothing is thrown.
C3_ConnectivityFallsBack ==
  (last.kind = "settle" /\ ~last.flagBefore
     /\ last.call.err.status \in ConnectivityStatuses) =>
        /\ mockMode
        /\ last.call.st = "returned"
        /\ last.call.ret = "fallback"
        /\ last.call.val = MockData(last.call.ep)
        /\ last.call.thrown = NoErr

C3_Witness ==
  /\ last.kind = "settle"
  /\ ~last.flagBefore
  /\ last.call.err.status = 404
  /\ mockMode
  /\ last.call.ret = "fallback"

\* C4: a live call failing with an error whose status is defined and neither
\* 0 nor 404 makes the orchestrator throw that same error; no fallback is
\* returned and the flag keeps the value it had.
C4_OtherErrorsRethrown ==
  (last.kind = "settle" /\ last.call.err # NoErr
     /\ last.call.err.status \notin ConnectivityStatuses) =>
        /\ last.call.st = "thrown"
        /\ last.call.thrown = last.call.err
        /\ last.call.ret = "none"
        /\ last.call.val = NoVal
        /\ mockMode = last.flagBefore

C4_Witness ==
  /\ last.kind = "settle"
  /\ last.call.err.status = 500
  /\ last.call.st = "thrown"
  /\ ~mockMode

\* C5: once a response with status completed, failed or canceled has been
\* applied by a polling session, its timer is cleared, the polling indicator
\* is false while that session is the current one, and the session issues no
\* further status query.
C5_TerminalStops ==
  /\ [](\A s \in DOMAIN sessions :
          sessions[s].terminal =>
             /\ sessions[s].timer = "cleared"
             /\ IsCurrent(s) => ~polling)
  /\ [][\A s \in DOMAIN sessions :
          sessions[s].terminal => sessions'[s].issued <= sessions[s].issued]_vars

C5_Witness ==
  \E s \in DOMAIN sessions :
    /\ sessions[s].terminal
    /\ sessions[s].active
    /\ statusInfo.status = "canceled"
    /\ sessions[s].issued < MaxPolls
    /\ ~polling

\* C6: when the status queries of a session are answered pending, processing,
\* completed, the session has issued exactly three queries once the first
\* three are answered, and its timer is cleared.
C6_ExactlyThreeQueries ==
  \A s \in DOMAIN sessions :
    (sessions[s].active /\ sessions[s].issued >= 3
       /\ \A c \in StatusCalls(s) : c.ord > 3) =>
          /\ sessions[s].issued = 3
          /\ sessions[s].timer = "cleared"

\* C7: a cancelled polling session has its timer cleared, and a status
\* response or poll error of that session that arrives after the cancellation
\* changes neither statusInfo nor polling nor error.
C7_CancelledSessionSilent ==
  /\ [](\A s \in DOMAIN sessions : ~sessions[s].active => sessions[s].timer = "cleared")
  /\ [][(\E c \in inflight :
            /\ c.ep = "getUploadStatus"
            /\ c \notin inflight'
            /\ ~sessions[c.sess].active)
          => UNCHANGED <<statusInfo, polling, error>>]_vars

C7_Witness ==
  \E s \in DOMAIN sessions :
    /\ ~sessions[s].active
    /\ last.kind = "stale"
    /\ mounted
    /\ assetId # sessions[s].asset
    /\ polling
    /\ statusInfo = NoVal
    /\ error = ""

\* C8: within one polling session at most one status query is in flight at
\* any moment.
C8_OneQueryInFlight ==
  \A s \in DOMAIN sessions : Cardinality(StatusCalls(s)) <= 1

\* C9 (as stated): a session that has started to track an asset id has issued
\* its first status query before any polling interval has elapsed.
C9_FirstQueryImmediate ==
  \A s \in DOMAIN sessions :
    (sessions[s].active /\ sessions[s].elapsedMs = 0) => sessions[s].issued >= 1

\* C9 (amended): starting to track an asset id only arms the timer; the k-th
\* status query of a session is issued when k polling intervals of 1500 ms
\* have elapsed, so none is issued before the first interval has elapsed.
C9_QueriesOnIntervalOnly ==
  /\ \A s \in DOMAIN sessions :
       sessions[s].issued * POLL_INTERVAL_MS = sessions[s].elapsedMs
  /\ \A c \in inflight :
       c.ep = "getUploadStatus" => (c.ord >= 1 /\ c.at = c.ord * POLL_INTERVAL_MS)

C9_Witness ==
  \E s \in DOMAIN sessions :
    /\ sessions[s].issued = 2
    /\ sessions[s].elapsedMs = 3000
    /\ \E c \in StatusCalls(s) : c.ord = 1 /\ c.at = 1500
    /\ \E c \in StatusCalls(s) : c.ord = 2 /\ c.at = 3000

\* C10: when a status poll throws into the poller, the poller shows the
\* error's message, clears the timer and sets polling to false; the session
\* issues no further query afterwards.
C10_PollErrorHalts ==
  /\ [][\A s \in DOMAIN sessions :
          sessions'[s].errors > sessions[s].errors =>
             /\ error' = (IF sessions'[s].thrown.payload = "message"
                            THEN "server message" ELSE sessions'[s].thrown.message)
             /\ error' # ""
             /\ sessions'[s].timer = "cleared"
             /\ ~polling']_vars
  /\ [](\A s \in DOMAIN sessions :
          sessions[s].errors > 0 =>
             /\ sessions[s].timer = "cleared"
             /\ IsCurrent(s) => ~polling)
  /\ [][\A s \in DOMAIN sessions :
          sessions[s].errors > 0 => sessions'[s].issued <= sessions[s].issued]_vars

C10_Witness ==
  \E s \in DOMAIN sessions :
    /\ sessions[s].active
    /\ sessions[s].errors = 1
    /\ sessions[s].thrown.status = 500
    /\ sessions[s].issued < MaxPolls
    /\ error = "HTTP 500"
    /\ ~polling

\* C11: for a tag query with at least one non-empty token, the filter keeps,
\* in order, exactly the quotes for which every token (trimmed, lowercased)
\* is a substring of at least one lowercased tag of the quote.
Pieces(q) ==
  {SubSeq(q, i, j) : <<i, j>> \in
     {<<i, j>> \in (1..Len(q) + 1) \X (0..Len(q)) :
        /\ i <= j + 1
        /\ i = 1 \/ q[i - 1] = ","
        /\ j = Len(q) \/ q[j + 1] = ","
        /\ \A k \in i..j : q[k] # ","}}

Trimmed(s) ==
  CHOOSE t \in {SubSeq(s, i, j) : <<i, j>> \in
                  {<<i, j>> \in (1..Len(s) + 1) \X (0..Len(s)) :
                     /\ i <= j + 1
                     /\ \A k \in 1..Len(s) : (k < i \/ k > j) => s[k] = " "
                     /\ i <= j => (s[i] # " " /\ s[j] # " ")}} : TRUE

TokenSet(q) == {toLowerCase(Trimmed(p)) : p \in Pieces(q)} \ {<<>>}

MatchesAll(quote, toks) ==
  \A tok \in toks :
    \E j \in DOMAIN quote.tags :
      \E i \in 1..Len(quote.tags[j]) :
        /\ i + Len(tok) - 1 <= Len(quote.tags[j])
        /\ \A k \in 1..Len(tok) : LowerChar(quote.tags[j][i + k - 1]) = tok[k]

ParamsNamed(c, k) == {p \in c.req.url.searchParams : p[1] = k}

C12_LoadParams ==
  (wire.kind = "request" /\ wire.call.ep = "listQuotes") =>
     /\ wire.call.req.method = "GET"
     /\ ParamsNamed(wire.call, "status") =
          (IF quotesPage.status = "all" THEN {} ELSE {<<"status", quotesPage.status>>})
     /\ ParamsNamed(wire.call, "minConfidence") =
          (IF quotesPage.minConf > 0
             THEN {<<"minConfidence", NumString(quotesPage.minConf)>>} ELSE {})
     /\ ParamsNamed(wire.call, "assetId") = {}
     /\ \A p \in wire.call.req.url.searchParams : p[2] \notin {"null", "undefined", ""}

C12_Witness ==
  /\ wire.kind = "request"
  /\ wire.call.ep = "listQuotes"
  /\ quotesPage.status = "all"
  /\ quotesPage.minConf = 50
  /\ wire.call.req.url.searchParams = {<<"minConfidence", "0.5">>}

\* C13: when an approve or reject of id comes back with a quote, the held
\* collection keeps its length and order, every entry whose id is id becomes
\* the returned quote and every other entry stays as it was; when it fails,
\* the collection stays as it was.
C13_UpdateReplacesById ==
  [][(wire'.kind = "response" /\ wire'.call.ep = "updateQuote") =>
       IF wire'.call.st = "returned"
         THEN /\ Len(quotesPage'.quotes) = Len(quotesPage.quotes)
              /\ \A i \in DOMAIN quotesPage.quotes :
                   quotesPage'.quotes[i] =
                     IF quotesPage.quotes[i].id = QuoteIdOf(wire'.call)
                       THEN wire'.call.val ELSE quotesPage.quotes[i]
         ELSE quotesPage'.quotes = quotesPage.quotes]_vars

C13_Witness ==
  /\ wire.kind = "response"
  /\ wire.call.ep = "updateQuote"
  /\ wire.call.ret = "live"
  /\ QuoteIdOf(wire.call) = "q1"
  /\ Len(quotesPage.quotes) = 2
  /\ quotesPage.quotes[1] = [InitServer["q1"] EXCEPT !.approved = TRUE]
  /\ quotesPage.quotes[2] = InitServer["q2"]

\* C14: once an approve and then a reject have been applied to an entry of
\* the held collection, the entry is what it was before the approve, with
\* approved false: id, tags, text and confidence are the same.
C14_ApproveRejectRoundTrip ==
  quotesPage.trip.stage = 2 =>
     quotesPage.quotes[quotesPage.trip.pos] =
       [quotesPage.trip.before EXCEPT !.approved = FALSE]

\* the creation request of the export page, as sent to the service
CreateSent == wire.kind = "request" /\ wire.call.ep = "createExportJob"

\* what the claim expects for a typed title or author: the trimmed text, or null
TrimmedOrNull(s) == IF Trimmed(s) = <<>> THEN JsNull ELSE JsText(Trimmed(s))

\* C15: the export creation payload sent to the service has quote_ids equal
\* to the selected ids (same count), the chosen format, title and author
\* equal to the trimmed input when non-blank and null when the input is empty
\* or whitespace-only.
C15_ExportPayload ==
  CreateSent =>
    LET b == wire.call.req.body
    IN /\ wire.call.req.method = "POST"
       /\ wire.call.req.url.path = <<"api", "exports">>
       /\ Range(b.quote_ids) = Range(exportForm.selected)
       /\ Len(b.quote_ids) = Len(exportForm.selected)
       /\ b.format = exportForm.format
       /\ b.title = TrimmedOrNull(exportForm.title)
       /\ b.author = TrimmedOrNull(exportForm.author)

\* a payload with two ids, a title that needed trimming and a blank author
C15_Witness ==
  /\ CreateSent
  /\ Len(exportForm.selected) = 2
  /\ exportForm.format = "twitter"
  /\ exportForm.title = <<"M", " ">>
  /\ exportForm.author = <<" ">>
  /\ wire.call.req.body.title = JsText(<<"M">>)
  /\ wire.call.req.body.author = JsNull

BlankTitle == Trimmed(exportForm.title) = <<>>
BlankAuthor == Trimmed(exportForm.author) = <<>>

\* C16 as stated: on submission a blank title or author reaches the service
\* as the empty string, not as null.
C16_BlankIsEmptyString ==
  CreateSent =>
    /\ BlankTitle => wire.call.req.body.title = JsText(<<>>)
    /\ BlankAuthor => wire.call.req.body.author = JsText(<<>>)

\* C16: on submission the form hands a blank title or author to the page's
\* submit handler as the empty string, and the page sends null in its place
\* to the service.
C16_BlankEmptyThenNull ==
  CreateSent =>
    /\ BlankTitle => /\ wire.call.ctx.title = JsText(<<>>)
                     /\ wire.call.req.body.title = JsNull
    /\ BlankAuthor => /\ wire.call.ctx.author = JsText(<<>>)
                      /\ wire.call.req.body.author = JsNull

\* a submission with a whitespace-only title and an empty author
C16_Witness ==
  /\ CreateSent
  /\ exportForm.title = <<" ", " ">>
  /\ exportForm.author = <<>>
  /\ wire.call.ctx.title = JsText(<<>>)
  /\ wire.call.req.body.title = JsNull

DistinctIds(quoteArray) ==
  \A i, j \in DOMAIN quoteArray : quoteArray[i].id = quoteArray[j].id => i = j

\* C17: in the export selector, toggling the same quote id twice restores
\* the membership of the selection, from any selection; select-all over N
\* quotes with distinct ids yields a selection of size N; clear yields size 0.
C17_SelectionAlgebra ==
  exportPage.mounted =>
    /\ \A i \in DOMAIN exportPage.quotes :
         LET id == exportPage.quotes[i].id
             twice == onToggleQuote(onToggleQuote(exportForm.selected, id), id)
         IN /\ Range(twice) = Range(exportForm.selected)
            /\ Len(twice) = Cardinality(Range(twice))
    /\ DistinctIds(exportPage.quotes) =>
         /\ Len(onSelectAll(exportPage.quotes)) = Len(exportPage.quotes)
         /\ Cardinality(Range(onSelectAll(exportPage.quotes))) = Len(exportPage.quotes)
    /\ Len(onClearAll) = 0

\* a selection of two out of three that toggles have put out of list order
C17_Witness ==
  /\ Len(exportPage.quotes) = 3
  /\ exportForm.selected = <<"mock_quote_3", "mock_quote_1">>
  /\ Len(onSelectAll(exportPage.quotes)) = 3

\* the step just taken handed the ok response of a creation or of a refresh
\* to the page
JobReceived ==
  /\ wire.kind = "response"
  /\ wire.call.ep \in {"createExportJob", "getExportJob"}
  /\ wire.call.by \in {"submit", "refresh"}
  /\ wire.call.st = "returned"

\* C18: after a successful submit or refresh the held export job is the bare
\* job resource: the export field of the response when it carries one,
\* otherwise the response itself, for the creation and for the refresh.
C18_HeldJobIsBare ==
  JobReceived =>
    LET res == wire.call.val
    IN /\ res.export # NoJob => exportPage.job = res.export
       /\ res.export = NoJob =>
            /\ exportPage.job.id = res.id
            /\ exportPage.job.format = res.format
            /\ exportPage.job.status = res.status
       /\ Truthy(exportPage.job.id)
       /\ exportPage.job.status \in {"pending", "completed", "failed"}

\* a refresh that the service answered with a wrapped job, for a job the
\* service had created
C18_Witness ==
  /\ JobReceived
  /\ wire.call.by = "refresh"
  /\ wire.call.live
  /\ wire.call.val.export # NoJob
  /\ exportPage.job = Job("e1", "srt", "failed")

PreviewCalls == {c \in inflight : c.ep = "getExportJob" /\ c.by = "preview"}

Previewable(job) == Truthy(job.id) /\ job.status = "completed"

FileWritten == wire.kind = "file"

\* the extension the claim gives for a job format
ExtFor(format) ==
  CASE format = "json" -> "json"
    [] format = "srt" -> "srt"
    [] format = "vtt" -> "vtt"
    [] OTHER -> "txt"

C21_OfferedAreApproved ==
  \A i \in DOMAIN exportPage.quotes : exportPage.quotes[i].approved

\* C23 as stated: once a polling session has applied a terminal status and
\* cleared its timer, a status response of that session that arrives later
\* does not change the displayed status.
C23_TerminalIsFinal ==
  [][\A c \in inflight :
       (/\ c.ep = "getUploadStatus"
        /\ c \notin inflight'
        /\ sessions[c.sess].active
        /\ sessions[c.sess].terminal
        /\ sessions[c.sess].timer = "cleared")
         => statusInfo' = statusInfo]_vars

\* C25: when the live request of a status poll of a running session fails
\* with a connectivity-class error, the mock flag is set, the mock status
\* completed with the mock transcript id is applied, no error is shown or
\* counted, and the session's timer is cleared with that query.
C25_PollFallsBackToTerminal ==
  [][\A c \in inflight :
       (/\ c.ep = "getUploadStatus"
        /\ c \notin inflight'
        /\ sessions[c.sess].active
        /\ ~mockMode
        /\ mockMode')
         => /\ statusInfo'.status = "completed"
            /\ statusInfo'.transcript_id = MOCK_TRANSCRIPT_ID
            /\ error' = error
            /\ ~polling'
            /\ sessions'[c.sess].errors = sessions[c.sess].errors
            /\ sessions'[c.sess].terminal
            /\ sessions'[c.sess].timer = "cleared"]_vars

\* a session for an asset the service had accepted, ended by the mock status
C25_Witness ==
  /\ mockMode
  /\ Len(sessions) = 1
  /\ sessions[1].asset \in LiveAssetIds
  /\ sessions[1].active
  /\ sessions[1].issued = 1
  /\ sessions[1].terminal
  /\ sessions[1].timer = "cleared"
  /\ sessions[1].errors = 0
  /\ statusInfo.status = "completed"
  /\ statusInfo.asset_id = MOCK_ASSET_ID
  /\ error = ""
  /\ ~polling

\* C26 as stated: once the mock flag has been set, no orchestrated call
\* delivers a live result to its caller, calls started before the flag was
\* set included.
C26_NoLiveResultInMockMode ==
  (last.kind = "settle" /\ last.flagBefore) => last.call.ret # "live"

\* an upload has completed and onUploaded has run: UploadForm is still busy
\* and its request is no longer outstanding
UploadDone == mounted /\ busy /\ \A c \in inflight : c.ep # "uploadAsset"

\* C24 as stated, in what it entails for the page: every completed upload
\* is followed by a status query whose outcome is shown, a status or an
\* error, also when the returned asset id equals the one already tracked.
C24_UploadIsPolled ==
  UploadDone ~> (statusInfo # NoVal \/ error # "" \/ ~mounted)

\* the query parameters of a load for the filter values the page holds
ParamsFor(qp) ==
  (IF qp.status = "all" THEN {} ELSE {<<"status", qp.status>>})
    \cup (IF qp.minConf > 0 THEN {<<"minConfidence", NumString(qp.minConf)>>} ELSE {})

\* C27 as stated: once all quote fetches have settled, the held collection
\* is the response to the most recent filter values: the list response the
\* service gave last to the page answers the request for the filter held.
C27_LatestFetchWins ==
  (/\ \A c \in inflight : c.ep # "listQuotes"
   /\ wire.kind = "response"
   /\ wire.call.ep = "listQuotes"
   /\ wire.call.ret = "live")
     => /\ wire.call.req.url.searchParams = ParamsFor(quotesPage)
        /\ quotesPage.quotes = ListOf(wire.call.val)

\* C30 as stated: the visible quotes are consistent with the status filter:
\* all approved while the filter is approved, none approved while it is
\* pending.
C30_VisibleMatchesStatus ==
  (quotesPage.mounted /\ ~quotesPage.loading /\ quotesPage.error = "") =>
    \A i \in DOMAIN quotesPage.filteredQuotes :
      /\ quotesPage.status = "approved" => quotesPage.filteredQuotes[i].approved
      /\ quotesPage.status = "pending" => ~quotesPage.filteredQuotes[i].approved

\* the refresh c was issued before a submission that has started since:
\* that submission is still outstanding, or it has replaced the job c is for
RefreshBeforeSubmit(c) ==
  /\ c.ep = "getExportJob"
  /\ c.by = "refresh"
  /\ exportPage.submitting \/ exportPage.job.id # c.ctx.id

\* C28 as stated: after a new export submission has started, the held job
\* is never set from a refresh request issued before that submission.
C28_StaleRefreshIgnored ==
  [][\A c \in inflight :
       (RefreshBeforeSubmit(c) /\ c \notin inflight') => exportPage'.job = exportPage.job]_vars

\* a step that issues a transcript save
SaveIssued ==
  /\ transcriptPage'.calls = transcriptPage.calls + 1
  /\ wire'.kind \in {"request", "response"}
  /\ wire'.call.ep = "updateTranscript"
  /\ wire'.call.ord = transcriptPage'.calls

\* C29: whenever a transcript save is issued, the text it sends is the text
\* the editor shows at that moment
C29_SaveSendsShownText ==
  [][SaveIssued => wire'.call.req.body.text = transcriptPage.localText]_vars

\* what the fallback of the call c delivers as long as mockData.js holds what
\* it held when it was loaded
FrozenMock(c) ==
  CASE c.ep = "listQuotes" -> ListResponse("array", MOCK_QUOTES)
    [] c.ep = "listTranscripts" ->
         ListResponse("array", <<Transcript(TRUE, MOCK_TRANSCRIPT.id, MOCK_TRANSCRIPT.text)>>)
    [] c.ep \in {"getTranscript", "updateTranscript", "appendTranscriptSegment"} ->
         Transcript(TRUE, MOCK_TRANSCRIPT.id, MOCK_TRANSCRIPT.text)
    [] c.ep = "createExportJob" -> Wrapped(MOCK_EXPORT)
    [] c.ep = "getExportJob" -> Flat(MOCK_EXPORT)
    [] OTHER -> c.val

\* C22: the mock dataset is a frozen snapshot: whatever the pages do in mock
\* mode (list and get, approve and reject, edit and save a transcript, append
\* a segment, submit and refresh an export), mockData.js holds the asset, the
\* transcript, the quotes and the export job it held when it was loaded, and
\* a call answered from it delivers just these
C22_MockDataIsFrozen ==
  /\ mockData = InitMockData
  /\ (wire.kind = "response" /\ wire.call.ret = "fallback") => wire.call.val = FrozenMock(wire.call)

\* in mock mode a letter was typed into the mock transcript and saved, and a
\* segment append after that was answered with the mock transcript
C22_Witness ==
  /\ mockMode
  /\ transcriptPage.dirty
  /\ transcriptPage.localText # MOCK_TRANSCRIPT.text
  /\ transcriptPage.timers >= 1
  /\ wire.kind = "response"
  /\ wire.call.ep = "appendTranscriptSegment"
  /\ wire.call.ret = "fallback"

====
